---------------------------- MODULE Spec2Model ----------------------------
(* DMA transfer descriptor (validator and execution state machine) of      *)
(* src/src/dma/mod.rs, modelled as a state machine.                        *)
EXTENDS Integers, Sequences, FiniteSets, TLC

(***************************************************************************)
(* Bounds of the model.                                                    *)
(***************************************************************************)
\* caller mutations of public fields between new() and the validation
MaxMutations == 2
\* descriptors sharing the one DmaManager
NumTransfers == 3

(***************************************************************************)
(* Program constants and enumerations (src/src/dma/mod.rs:10-203).         *)
(***************************************************************************)
FIFO_SIZE == 16

U16 == 65536

\* `address as u32`: a pointer of the 32 bit target is 32 bits wide, the cast
\* keeps its value (the addresses of the model are below 2^31)
as_u32(a) == a

Stream == {"S0", "S1"}
BurstMode == {"SingleTransfer", "Incremental4", "Incremental8", "Incremental16"}
Width == {"Byte", "HalfWord", "Word"}
IncrementMode == {"Fixed", "Increment"}
CircularMode == {"Disable", "Enable"}
DoubleBufferingMode == {"Disable", "UseSecondBuffer"}
Direction == {"PeripheralToMemory", "MemoryToPeripheral", "MemoryToMemory"}
PeripheralIncrementOffsetSize == {"UsePSize", "Force32Bit"}
DirectMode == {"Enable", "Disable"}
FifoThreshold == {"Quarter", "Half", "ThreeQuarter", "Full"}

RECURSIVE Shl1(_)
\* 1 << n
Shl1(n) == IF n = 0 THEN 1 ELSE 2 * Shl1(n - 1)

\* the enum discriminants (#[repr(u8)])
BurstModeBits(b) ==
    CASE b = "SingleTransfer" -> 0
      [] b = "Incremental4" -> 1
      [] b = "Incremental8" -> 2
      [] b = "Incremental16" -> 3

WidthBits(w) ==
    CASE w = "Byte" -> 0
      [] w = "HalfWord" -> 1
      [] w = "Word" -> 2

\* BurstMode::get_size
BurstMode_get_size(b) ==
    IF b = "SingleTransfer" THEN 1 ELSE Shl1(BurstModeBits(b) + 1)

\* Width::get_size
Width_get_size(w) == Shl1(WidthBits(w))

\* FifoThreshold::get_numerator
get_numerator(t) ==
    CASE t = "Quarter" -> 1
      [] t = "Half" -> 2
      [] t = "ThreeQuarter" -> 3
      [] t = "Full" -> 4

\* FifoThreshold::get_denominator
get_denominator(t) == 4

(***************************************************************************)
(* enum Error, and Option<Error>::None.                                    *)
(***************************************************************************)
NoError == [tag |-> "None"]
Err(t) == [tag |-> t]
TransactionCountNotAMultipleOf(f) ==
    [tag |-> "TransactionCountNotAMultipleOf", factor |-> f]

(***************************************************************************)
(* DmaTransfer::new: the descriptor after construction.                    *)
(***************************************************************************)
DmaTransferNode(a, b, i, w) ==
    [address |-> a, burst_mode |-> b, increment_mode |-> i,
     transaction_width |-> w]

\* new selecting direct mode also for a transfer of exactly FIFO_SIZE bytes
new_direct_up_to_fifo_size(stream, channel, direction, peripheral, memory, transaction_count) ==
    LET pwidth == Width_get_size(peripheral.transaction_width)
    IN  [stream |-> stream,
         channel |-> channel,
         priority |-> "Medium",
         direction |-> direction,
         circular_mode |-> "Disable",
         double_buffering_mode |-> "Disable",
         flow_controller |-> "DMA",
         peripheral_increment_offset_size |-> "UsePSize",
         peripheral |-> peripheral,
         memory |-> memory,
         transaction_count |-> transaction_count,
         direct_mode |-> IF transaction_count * pwidth > FIFO_SIZE
                         THEN "Disable" ELSE "Enable",
         fifo_threshold |-> "Full",
         interrupt_transfer_complete |-> "Enable",
         interrupt_half_transfer |-> "Disable",
         interrupt_transfer_error |-> "Enable",
         interrupt_direct_mode_error |-> "Enable",
         interrupt_fifo |-> "Enable"]

new(stream, channel, direction, peripheral, memory, transaction_count) ==
    LET pwidth == Width_get_size(peripheral.transaction_width)
    IN  [stream |-> stream,
         channel |-> channel,
         priority |-> "Medium",
         direction |-> direction,
         circular_mode |-> "Disable",
         double_buffering_mode |-> "Disable",
         flow_controller |-> "DMA",
         peripheral_increment_offset_size |-> "UsePSize",
         peripheral |-> peripheral,
         memory |-> memory,
         transaction_count |-> transaction_count,
         direct_mode |-> IF transaction_count * pwidth >= FIFO_SIZE
                         THEN "Disable" ELSE "Enable",
         fifo_threshold |-> "Full",
         interrupt_transfer_complete |-> "Enable",
         interrupt_half_transfer |-> "Disable",
         interrupt_transfer_error |-> "Enable",
         interrupt_direct_mode_error |-> "Enable",
         interrupt_fifo |-> "Enable"]

(***************************************************************************)
(* DmaTransfer::is_valid: the locals, then the chain of checks.            *)
(***************************************************************************)
apply_circular_mode_limitations(d) ==
    d.circular_mode = "Enable" \/ d.double_buffering_mode # "Disable"

mwidth(d) == Width_get_size(d.memory.transaction_width)

pwidth(d) ==
    IF d.peripheral_increment_offset_size = "Force32Bit"
    THEN 4
    ELSE Width_get_size(d.peripheral.transaction_width)

mburst_size(d) == BurstMode_get_size(d.memory.burst_mode) * mwidth(d)

pburst_size(d) == BurstMode_get_size(d.peripheral.burst_mode) * pwidth(d)

\* mcount_factor dividing by the memory width instead of the peripheral one
mcount_factor_by_mwidth(d) == (mburst_size(d) \div mwidth(d)) % U16

mcount_factor(d) == (mburst_size(d) \div pwidth(d)) % U16

pcount_factor(d) == pburst_size(d) % U16

mdata_before_first_kb_boundary(d) == 1024 - (as_u32(d.memory.address) % 1024)

pdata_before_first_kb_boundary(d) == 1024 - (as_u32(d.peripheral.address) % 1024)

mdata_size(d) ==
    mwidth(d) * (IF d.memory.increment_mode = "Increment"
                 THEN d.transaction_count ELSE 1)

pdata_size(d) ==
    pwidth(d) * (IF d.peripheral.increment_mode = "Increment"
                 THEN d.transaction_count ELSE 1)

\* the conditions of the if / else-if chain, one per check
\* the memory count check letting a count factor of 0 pass
mcount_violated_unless_zero(d) ==
    mcount_factor(d) # 0 /\ d.transaction_count % mcount_factor(d) # 0

mcount_violated(d) ==
    mcount_factor(d) = 0 \/ d.transaction_count % mcount_factor(d) # 0

pcount_violated(d) == d.transaction_count % pcount_factor(d) # 0

unaligned_peripheral(d) ==
    as_u32(d.peripheral.address)
        % Width_get_size(d.peripheral.transaction_width) # 0

\* unaligned_memory testing against the peripheral's width
unaligned_memory_by_pwidth(d) ==
    as_u32(d.memory.address)
        % Width_get_size(d.peripheral.transaction_width) # 0

unaligned_memory(d) ==
    as_u32(d.memory.address) % Width_get_size(d.memory.transaction_width) # 0

circular_with_m2m(d) ==
    apply_circular_mode_limitations(d) /\ d.direction = "MemoryToMemory"

direct_with_m2m(d) ==
    d.direct_mode = "Enable" /\ d.direction = "MemoryToMemory"

memory_crosses_kb(d) ==
    /\ mdata_before_first_kb_boundary(d) > mdata_size(d)
    /\ mdata_before_first_kb_boundary(d) % mburst_size(d) # 0

peripheral_crosses_kb(d) ==
    /\ pdata_before_first_kb_boundary(d) > pdata_size(d)
    /\ pdata_before_first_kb_boundary(d) % pburst_size(d) # 0

\* the threshold check against the peripheral's burst size
fifo_threshold_mismatch_by_pburst(d) ==
    (get_numerator(d.fifo_threshold) * FIFO_SIZE)
        % (get_denominator(d.fifo_threshold) * pburst_size(d)) # 0

fifo_threshold_mismatch(d) ==
    (get_numerator(d.fifo_threshold) * FIFO_SIZE)
        % (get_denominator(d.fifo_threshold) * mburst_size(d)) # 0

\* is_valid with the circular mode check after the direct mode check
is_valid_direct_first(d) ==
    IF mcount_violated(d)
    THEN TransactionCountNotAMultipleOf(mcount_factor(d))
    ELSE IF pcount_violated(d)
    THEN TransactionCountNotAMultipleOf(pcount_factor(d))
    ELSE IF unaligned_peripheral(d)
    THEN Err("UnalignedPeripheralAddress")
    ELSE IF unaligned_memory(d)
    THEN Err("UnalignedMemoryAddress")
    ELSE IF direct_with_m2m(d)
    THEN Err("CannotUseMemoryToMemoryTransferWithDirectMode")
    ELSE IF circular_with_m2m(d)
    THEN Err("CannotUseMemoryToMemoryTransferWithCircularMode")
    ELSE IF memory_crosses_kb(d)
    THEN Err("MemoryAccessWouldCrossOneKilobyteBoundary")
    ELSE IF peripheral_crosses_kb(d)
    THEN Err("PeripheralAccessWouldCrossOneKilobyteBoundary")
    ELSE IF fifo_threshold_mismatch(d)
    THEN Err("InvalidFifoThresholdMemoryBurstCombination")
    ELSE NoError

\* is_valid with the memory alignment check before the peripheral one
is_valid_memory_first(d) ==
    IF mcount_violated(d)
    THEN TransactionCountNotAMultipleOf(mcount_factor(d))
    ELSE IF pcount_violated(d)
    THEN TransactionCountNotAMultipleOf(pcount_factor(d))
    ELSE IF unaligned_memory(d)
    THEN Err("UnalignedMemoryAddress")
    ELSE IF unaligned_peripheral(d)
    THEN Err("UnalignedPeripheralAddress")
    ELSE IF circular_with_m2m(d)
    THEN Err("CannotUseMemoryToMemoryTransferWithCircularMode")
    ELSE IF direct_with_m2m(d)
    THEN Err("CannotUseMemoryToMemoryTransferWithDirectMode")
    ELSE IF memory_crosses_kb(d)
    THEN Err("MemoryAccessWouldCrossOneKilobyteBoundary")
    ELSE IF peripheral_crosses_kb(d)
    THEN Err("PeripheralAccessWouldCrossOneKilobyteBoundary")
    ELSE IF fifo_threshold_mismatch(d)
    THEN Err("InvalidFifoThresholdMemoryBurstCombination")
    ELSE NoError

is_valid(d) ==
    IF mcount_violated(d)
    THEN TransactionCountNotAMultipleOf(mcount_factor(d))
    ELSE IF pcount_violated(d)
    THEN TransactionCountNotAMultipleOf(pcount_factor(d))
    ELSE IF unaligned_peripheral(d)
    THEN Err("UnalignedPeripheralAddress")
    ELSE IF unaligned_memory(d)
    THEN Err("UnalignedMemoryAddress")
    ELSE IF circular_with_m2m(d)
    THEN Err("CannotUseMemoryToMemoryTransferWithCircularMode")
    ELSE IF direct_with_m2m(d)
    THEN Err("CannotUseMemoryToMemoryTransferWithDirectMode")
    ELSE IF memory_crosses_kb(d)
    THEN Err("MemoryAccessWouldCrossOneKilobyteBoundary")
    ELSE IF peripheral_crosses_kb(d)
    THEN Err("PeripheralAccessWouldCrossOneKilobyteBoundary")
    ELSE IF fifo_threshold_mismatch(d)
    THEN Err("InvalidFifoThresholdMemoryBurstCombination")
    ELSE NoError

(***************************************************************************)
(* The register block behind the DMA controller adapter (dma::detail::Dma, *)
(* an external collaborator): the fields of one stream, their reset        *)
(* values, and the adapter's writes and reads.                             *)
(***************************************************************************)
ResetStream ==
    [en |-> "Disable",
     htif |-> "NotRaised", tcif |-> "NotRaised", teif |-> "NotRaised",
     feif |-> "NotRaised", dmeif |-> "NotRaised",
     channel |-> "C0", pl |-> "Low", dir |-> "PeripheralToMemory",
     circ |-> "Disable", dbm |-> "Disable", pfctrl |-> "DMA",
     psize |-> "Byte", pinc |-> "Fixed", pburst |-> "SingleTransfer",
     pincos |-> "UsePSize", par |-> 0,
     msize |-> "Byte", minc |-> "Fixed", mburst |-> "SingleTransfer",
     m0ar |-> 0, ndtr |-> 0, dmdis |-> "Enable", fth |-> "Quarter",
     tcie |-> "Disable", htie |-> "Disable", teie |-> "Disable",
     dmeie |-> "Disable", feie |-> "Disable"]

\* one setter of the adapter: field f of stream s takes the value v
Adapter_write(r, s, f, v) == [r EXCEPT ![s][f] = v]

RECURSIVE Adapter_write_all(_, _, _)
\* the setters ws = << <<field, value>>, ... >> called in order on stream s
Adapter_write_all(r, s, ws) ==
    IF ws = <<>> THEN r
    ELSE Adapter_write_all(Adapter_write(r, s, ws[1][1], ws[1][2]), s, Tail(ws))

\* the entries the calls ws on stream s add to the log of register writes
LogOf(s, ws) == [i \in 1..Len(ws) |-> <<s, ws[i][1], ws[i][2]>>]

(***************************************************************************)
(* DmaTransfer's readers of the stream status (mod.rs:313-339).            *)
(***************************************************************************)
is_running(r, d) == r[d.stream].en = "Enable"

is_finished(r, d) == r[d.stream].tcif = "Raised"

is_transfer_error(r, d) == r[d.stream].teif = "Raised"

is_direct_mode_error(r, d) == r[d.stream].dmeif = "Raised"

is_error(r, d) == is_transfer_error(r, d) \/ is_direct_mode_error(r, d)

\* is_active overlooking the direct mode error
is_active_without_dmeif(r, d) ==
    is_running(r, d) /\ ~is_finished(r, d) /\ ~is_transfer_error(r, d)

is_active(r, d) == is_running(r, d) /\ ~is_finished(r, d) /\ ~is_error(r, d)

\* is_ready asking only for a disabled stream
is_ready_when_disabled(r, d) == ~is_running(r, d)

is_ready(r, d) == ~is_active(r, d)

\* the registers is_error() reads: || stops at the first raised flag
is_error_reads(r, d) == IF is_transfer_error(r, d) THEN 1 ELSE 2

\* the registers is_active() reads: && stops at the first false operand
is_active_reads(r, d) ==
    IF ~is_running(r, d) THEN 1
    ELSE IF is_finished(r, d) THEN 2
    ELSE 2 + is_error_reads(r, d)

(***************************************************************************)
(* The register writes of configure(), start() and stop(), in the order    *)
(* the code makes them: << <<field, value>>, ... >>.                       *)
(***************************************************************************)
\* configure_flags with the stream enabled before its flags are cleared
configure_flags_enabling_first(d) ==
    << <<"en", "Enable">>,
       <<"htif", "NotRaised">>, <<"tcif", "NotRaised">>,
       <<"teif", "NotRaised">>, <<"feif", "NotRaised">>,
       <<"dmeif", "NotRaised">> >>

\* configure(), its first five calls: the sticky flags
configure_flags(d) ==
    << <<"htif", "NotRaised">>, <<"tcif", "NotRaised">>,
       <<"teif", "NotRaised">>, <<"feif", "NotRaised">>,
       <<"dmeif", "NotRaised">> >>

\* configure(), the rest: every configuration field
configure_fields(d) ==
    << <<"channel", d.channel>>,
       <<"pl", d.priority>>,
       <<"dir", d.direction>>,
       <<"circ", d.circular_mode>>,
       <<"dbm", d.double_buffering_mode>>,
       <<"pfctrl", d.flow_controller>>,
       <<"psize", d.peripheral.transaction_width>>,
       <<"pinc", d.peripheral.increment_mode>>,
       <<"pburst", d.peripheral.burst_mode>>,
       <<"pincos", d.peripheral_increment_offset_size>>,
       <<"par", d.peripheral.address>>,
       <<"msize", d.memory.transaction_width>>,
       <<"minc", d.memory.increment_mode>>,
       <<"mburst", d.memory.burst_mode>>,
       <<"m0ar", d.memory.address>>,
       <<"ndtr", d.transaction_count>>,
       <<"dmdis", d.direct_mode>>,
       <<"fth", d.fifo_threshold>>,
       <<"tcie", d.interrupt_transfer_complete>>,
       <<"htie", d.interrupt_half_transfer>>,
       <<"teie", d.interrupt_transfer_error>>,
       <<"dmeie", d.interrupt_direct_mode_error>>,
       <<"feie", d.interrupt_fifo>> >>

\* start(), after configure(): set_sxcr_en(stream, Enable)
start_enable(d) == << <<"en", "Enable">> >>

\* stop() writing nothing
stop_writes_none(d) == <<>>

\* stop() clearing the transfer-complete flag along with the enable bit
stop_writes_and_tcif(d) ==
    << <<"en", "Disable">>, <<"tcif", "NotRaised">> >>

\* stop(): set_sxcr_en(stream, Disable)
stop_writes(d) == << <<"en", "Disable">> >>

(***************************************************************************)
(* The values a call returns.                                              *)
(***************************************************************************)
NoRet == [tag |-> "NoRet"]
RetUnit == [tag |-> "Unit"]
RetOk == [tag |-> "Ok"]
RetOkBool(b) == [tag |-> "Ok", value |-> b]
RetErr(e) == [tag |-> "Err", error |-> e]
RetBool(b) == [tag |-> "Bool", value |-> b]

StreamNotReady == Err("StreamNotReady")

(***************************************************************************)
(* State.                                                                  *)
(***************************************************************************)
VARIABLES
    dv,        \* the descriptor a caller builds and validates
    vpc,       \* "built" | "validated" | "moved" | "restored"
    vresult,   \* what is_valid() returned last
    nmut,      \* caller mutations made so far
    vmoved,    \* <<endpoint, delta>>: the address moved one byte off its alignment
    regs,      \* the register block of the DmaManager: stream -> fields
    xfer,      \* the descriptors sharing the manager: 1..NumTransfers -> DmaTransfer
    pc,        \* where the one flow of control is
    op,        \* the method the caller called
    cur,       \* the descriptor it was called on
    ret,       \* the value the call returned (pc = "returned")
    wres,      \* execute(): the result of wait(), kept across stop()
    writes,    \* the register writes of the call so far: << <<stream, field, value>>, ... >>
    dmaBorrow, \* the borrow state of the RefCell<DmaManager> the descriptors share
    sta,       \* SD status register: the flags cmdsent, ctimeout, ccrcfail, cmdrend
    sd_arg,    \* SD argument register, a 32 bit word <<upper half, lower half>>
    sd_cmd,    \* SD command register: the fields the dispatchers set
    respcmd,   \* SD response-command register: the index the last response echoed
    resp1,     \* SD response register 1, a 32 bit word <<upper half, lower half>>
    cpsm,      \* the command path state machine of the controller: "idle" | "busy"
    ticks,     \* system_clock::ticks()
    timeout,   \* the local `timeout` of the running response wait
    spc,       \* where the SD flow of control is
    scall,     \* the dispatch operation called and its argument
    sret,      \* the value the dispatch operation returned (spc = "returned")
    swrites    \* the register writes of the call so far: << <<register, value>>, ... >>

validVars == <<dv, vpc, vresult, nmut, vmoved>>
dmaVars == <<regs, xfer, pc, op, cur, ret, wres, writes, dmaBorrow>>
sdVars == <<sta, sd_arg, sd_cmd, respcmd, resp1, cpsm, ticks, timeout, spc, scall,
           sret, swrites>>
vars == <<dv, vpc, vresult, nmut, vmoved, regs, xfer, pc, op, cur, ret, wres, writes,
         dmaBorrow,
         sta, sd_arg, sd_cmd, respcmd, resp1, cpsm, ticks, timeout, spc, scall,
         sret, swrites>>

NotValidated == [tag |-> "NotValidated"]

(***************************************************************************)
(* The RefCell around the DmaManager (core::cell::RefCell): flag 0 is not  *)
(* borrowed, n > 0 is n shared borrows, -1 is one mutable borrow. A borrow *)
(* that the flag forbids panics.                                           *)
(***************************************************************************)
NoBorrow == [flag |-> 0, panicked |-> FALSE]

RefCell_event(b, e) ==
    IF b.panicked THEN b
    ELSE CASE e = "borrow" ->
                IF b.flag >= 0 THEN [b EXCEPT !.flag = b.flag + 1]
                               ELSE [b EXCEPT !.panicked = TRUE]
           [] e = "borrow_mut" ->
                IF b.flag = 0 THEN [b EXCEPT !.flag = -1]
                              ELSE [b EXCEPT !.panicked = TRUE]
           [] e = "drop_ref" -> [b EXCEPT !.flag = b.flag - 1]
           [] e = "drop_mut" -> [b EXCEPT !.flag = 0]

RECURSIVE RefCell_run(_, _)
\* the borrows and drops es, in order
RefCell_run(b, es) ==
    IF es = <<>> THEN b ELSE RefCell_run(RefCell_event(b, es[1]), Tail(es))

\* a register read keeping its Ref beyond the statement
read_access_keeping_ref == <<"borrow">>

\* self.dma.borrow().controller.<getter>(self.stream): the Ref is a temporary
\* of the expression
read_access == <<"borrow", "drop_ref">>

\* self.dma.borrow_mut().controller.<setter>(self.stream, ..);
write_access == <<"borrow_mut", "drop_mut">>

RECURSIVE Accesses(_, _)
\* n accesses one after the other
Accesses(access, n) == IF n = 0 THEN <<>> ELSE access \o Accesses(access, n - 1)

\* the borrows of n register reads, and of the writes ws
Reads(n) == RefCell_run(dmaBorrow, Accesses(read_access, n))

Writes(ws) == RefCell_run(dmaBorrow, Accesses(write_access, Len(ws)))

Transfers == 1..NumTransfers

\* the stream of the i-th descriptor: the first two share S0
StreamOf(i) == IF i <= 2 THEN "S0" ELSE "S1"

\* the transaction counts the caller may give the i-th descriptor: 4 is valid
\* for it, 3 is not a multiple of its peripheral count factor
TransferCounts(i) == IF i % 2 = 0 THEN {3, 4} ELSE {4}

TransferOf(i, c) ==
    new(StreamOf(i), "C0",
        IF i % 2 = 0 THEN "MemoryToPeripheral" ELSE "PeripheralToMemory",
        DmaTransferNode(2048, "SingleTransfer", "Fixed", "Word"),
        DmaTransferNode(1024 * i, "SingleTransfer", "Increment", "Word"), c)

\* the descriptor the validation specification leaves alone here
IdleDescriptor == TransferOf(1, 4)

ValidIdle ==
    /\ dv = IdleDescriptor
    /\ vpc = "built"
    /\ vresult = NotValidated
    /\ nmut = 0
    /\ vmoved = <<"none", 0>>

DmaIdle ==
    /\ regs = [s \in Stream |-> ResetStream]
    /\ xfer = [i \in Transfers |-> TransferOf(i, 4)]
    /\ pc = "idle"
    /\ op = "none"
    /\ cur = 1
    /\ ret = NoRet
    /\ wres = FALSE
    /\ writes = <<>>
    /\ dmaBorrow = NoBorrow

\* the SD controller after reset, no dispatch operation called
NoFlags == [cmdsent |-> FALSE, ctimeout |-> FALSE, ccrcfail |-> FALSE,
            cmdrend |-> FALSE]

ResetCmd == [sdiosuspend |-> FALSE, waitpend |-> FALSE, waitint |-> FALSE,
             waitresp |-> "No", cpsmen |-> FALSE, cmdindex |-> 0]

NoCall == [op |-> "none"]

SdIdle ==
    /\ sta = NoFlags
    /\ sd_arg = <<0, 0>>
    /\ sd_cmd = ResetCmd
    /\ respcmd = 0
    /\ resp1 = <<0, 0>>
    /\ cpsm = "idle"
    /\ ticks = <<0, 0>>
    /\ timeout = <<0, 0>>
    /\ spc = "idle"
    /\ scall = NoCall
    /\ sret = NoRet
    /\ swrites = <<>>

(***************************************************************************)
(* The validation of one descriptor: the inputs a caller hands to new(),   *)
(* and the values it stores in the public fields later.                    *)
(***************************************************************************)
AddressSet == {0, 1000, 1020, 1021, 1024}
CountSet == {0, 1, 4, 6, 16, 64}
InitCountSet == {4}
InitBurstSet == {"SingleTransfer"}

ValidInit ==
    /\ \E dir \in Direction, pw \in Width, mw \in Width,
          mb \in InitBurstSet, c \in InitCountSet :
          dv = new("S0", "C0", dir,
                   DmaTransferNode(0, "SingleTransfer", "Fixed", pw),
                   DmaTransferNode(0, mb, "Increment", mw), c)
    /\ vpc = "built"
    /\ vresult = NotValidated
    /\ nmut = 0
    /\ vmoved = <<"none", 0>>
    /\ DmaIdle
    /\ SdIdle

\* a caller stores to one public field of the descriptor
Mutate(d) ==
    /\ vpc = "built"
    /\ nmut < MaxMutations
    /\ d # dv
    /\ dv' = d
    /\ nmut' = nmut + 1
    /\ UNCHANGED <<vpc, vresult, vmoved>>
    /\ UNCHANGED dmaVars
    /\ UNCHANGED sdVars

SetTransactionCount ==
    \E c \in CountSet : Mutate([dv EXCEPT !.transaction_count = c])

SetDirection ==
    \E x \in Direction : Mutate([dv EXCEPT !.direction = x])

SetCircularMode ==
    \E x \in CircularMode : Mutate([dv EXCEPT !.circular_mode = x])

SetDoubleBufferingMode ==
    \E x \in DoubleBufferingMode : Mutate([dv EXCEPT !.double_buffering_mode = x])

SetPeripheralIncrementOffsetSize ==
    \E x \in PeripheralIncrementOffsetSize :
        Mutate([dv EXCEPT !.peripheral_increment_offset_size = x])

SetDirectMode ==
    \E x \in DirectMode : Mutate([dv EXCEPT !.direct_mode = x])

SetFifoThreshold ==
    \E x \in FifoThreshold : Mutate([dv EXCEPT !.fifo_threshold = x])

SetMemoryAddress ==
    \E a \in AddressSet : Mutate([dv EXCEPT !.memory.address = a])

SetPeripheralAddress ==
    \E a \in AddressSet : Mutate([dv EXCEPT !.peripheral.address = a])

SetMemoryBurstMode ==
    \E b \in BurstMode : Mutate([dv EXCEPT !.memory.burst_mode = b])

SetPeripheralBurstMode ==
    \E b \in BurstMode : Mutate([dv EXCEPT !.peripheral.burst_mode = b])

SetMemoryWidth ==
    \E w \in Width : Mutate([dv EXCEPT !.memory.transaction_width = w])

SetPeripheralWidth ==
    \E w \in Width : Mutate([dv EXCEPT !.peripheral.transaction_width = w])

SetMemoryIncrementMode ==
    \E m \in IncrementMode : Mutate([dv EXCEPT !.memory.increment_mode = m])

SetPeripheralIncrementMode ==
    \E m \in IncrementMode : Mutate([dv EXCEPT !.peripheral.increment_mode = m])

\* the caller calls is_valid()
Validate ==
    /\ vpc = "built"
    /\ vresult' = is_valid(dv)
    /\ vpc' = "validated"
    /\ UNCHANGED <<dv, nmut, vmoved>>
    /\ UNCHANGED dmaVars
    /\ UNCHANGED sdVars

\* after a validation without error, the caller moves one endpoint's address
\* one byte off its width alignment and validates again
MoveAddressOffByOne ==
    /\ vpc = "validated"
    /\ vresult = NoError
    /\ \E side \in {"memory", "peripheral"}, delta \in {-1, 1} :
        LET node == IF side = "memory" THEN dv.memory ELSE dv.peripheral
            a == node.address + delta
            d == IF side = "memory"
                 THEN [dv EXCEPT !.memory.address = a]
                 ELSE [dv EXCEPT !.peripheral.address = a]
        IN  /\ a >= 0
            /\ a % Width_get_size(node.transaction_width) # 0
            /\ dv' = d
            /\ vresult' = is_valid(d)
            /\ vmoved' = <<side, delta>>
    /\ vpc' = "moved"
    /\ UNCHANGED nmut
    /\ UNCHANGED dmaVars
    /\ UNCHANGED sdVars

\* the caller puts that address back, all other fields as they are, and
\* validates again
RestoreAddress ==
    /\ vpc = "moved"
    /\ LET d == IF vmoved[1] = "memory"
                THEN [dv EXCEPT !.memory.address = @ - vmoved[2]]
                ELSE [dv EXCEPT !.peripheral.address = @ - vmoved[2]]
       IN  /\ dv' = d
           /\ vresult' = is_valid(d)
    /\ vpc' = "restored"
    /\ UNCHANGED <<nmut, vmoved>>
    /\ UNCHANGED dmaVars
    /\ UNCHANGED sdVars

ValidNext ==
    \/ SetTransactionCount
    \/ SetDirection
    \/ SetCircularMode
    \/ SetDoubleBufferingMode
    \/ SetPeripheralIncrementOffsetSize
    \/ SetDirectMode
    \/ SetFifoThreshold
    \/ SetMemoryAddress
    \/ SetPeripheralAddress
    \/ SetMemoryBurstMode
    \/ SetPeripheralBurstMode
    \/ SetMemoryWidth
    \/ SetPeripheralWidth
    \/ SetMemoryIncrementMode
    \/ SetPeripheralIncrementMode
    \/ Validate
    \/ MoveAddressOffByOne
    \/ RestoreAddress

SpecValid == ValidInit /\ [][ValidNext]_vars

(***************************************************************************)
(* The execution state machine: one flow of control calls start(), wait(), *)
(* stop(), execute(), is_active() and is_ready() on the descriptors, while *)
(* the DMA engine raises status flags of the streams that are enabled.     *)
(***************************************************************************)
Init ==
    /\ ValidIdle
    /\ regs = [s \in Stream |-> ResetStream]
    /\ \E cs \in [Transfers -> {3, 4}] :
          /\ \A i \in Transfers : cs[i] \in TransferCounts(i)
          /\ xfer = [i \in Transfers |-> TransferOf(i, cs[i])]
    /\ pc = "idle"
    /\ op = "none"
    /\ cur = 1
    /\ ret = NoRet
    /\ wres = FALSE
    /\ writes = <<>>
    /\ dmaBorrow = NoBorrow
    /\ SdIdle

\* the call returns v
Return(v) ==
    /\ pc' = "returned"
    /\ ret' = v

\* one group of register writes ws of the running call, on its own stream
Write(ws) ==
    /\ dmaBorrow' = Writes(ws)
    /\ regs' = Adapter_write_all(regs, xfer[cur].stream, ws)
    /\ writes' = writes \o LogOf(xfer[cur].stream, ws)

\* start() and execute() begin alike: let result = self.is_valid()
CallStart ==
    /\ pc = "idle"
    /\ ~dmaBorrow.panicked
    /\ \E i \in Transfers, o \in {"start", "execute"} :
        /\ cur' = i
        /\ op' = o
        /\ IF is_valid(xfer[i]) = NoError
           THEN /\ pc' = "start_is_ready"
                /\ ret' = ret
           ELSE Return(RetErr(is_valid(xfer[i])))
    /\ UNCHANGED <<regs, xfer, wres, writes, dmaBorrow>>
    /\ UNCHANGED validVars
    /\ UNCHANGED sdVars

\* start() clearing the flags before it asks is_ready()
StartIsReady_after_flags ==
    /\ pc = "start_is_ready"
    /\ ~dmaBorrow.panicked
    /\ dmaBorrow' = Reads(is_active_reads(regs, xfer[cur]))
    /\ Write(configure_flags(xfer[cur]))
    /\ IF is_ready(regs, xfer[cur])
       THEN /\ pc' = "configure_fields"
            /\ ret' = ret
       ELSE Return(RetErr(StreamNotReady))
    /\ UNCHANGED <<xfer, op, cur, wres>>
    /\ UNCHANGED validVars
    /\ UNCHANGED sdVars

\* start(): if self.is_ready() { ... } else { Err(StreamNotReady) }
StartIsReady ==
    /\ pc = "start_is_ready"
    /\ ~dmaBorrow.panicked
    /\ dmaBorrow' = Reads(is_active_reads(regs, xfer[cur]))
    /\ IF is_ready(regs, xfer[cur])
       THEN /\ pc' = "configure_flags"
            /\ ret' = ret
       ELSE Return(RetErr(StreamNotReady))
    /\ UNCHANGED <<regs, xfer, op, cur, wres, writes>>
    /\ UNCHANGED validVars
    /\ UNCHANGED sdVars

\* configure(): clear_htif .. clear_dmeif
ConfigureFlags ==
    /\ pc = "configure_flags"
    /\ ~dmaBorrow.panicked
    /\ Write(configure_flags(xfer[cur]))
    /\ pc' = "configure_fields"
    /\ UNCHANGED <<xfer, op, cur, ret, wres>>
    /\ UNCHANGED validVars
    /\ UNCHANGED sdVars

\* configure(): set_sxcr_channel .. set_sxfcr_feie
ConfigureFields ==
    /\ pc = "configure_fields"
    /\ ~dmaBorrow.panicked
    /\ Write(configure_fields(xfer[cur]))
    /\ pc' = "start_enable"
    /\ UNCHANGED <<xfer, op, cur, ret, wres>>
    /\ UNCHANGED validVars
    /\ UNCHANGED sdVars

\* start(): set_sxcr_en(Enable); Ok(()). execute() goes on to wait()
StartEnable ==
    /\ pc = "start_enable"
    /\ ~dmaBorrow.panicked
    /\ Write(start_enable(xfer[cur]))
    /\ IF op = "execute"
       THEN /\ pc' = "wait_poll"
            /\ ret' = ret
       ELSE Return(RetOk)
    /\ UNCHANGED <<xfer, op, cur, wres>>
    /\ UNCHANGED validVars
    /\ UNCHANGED sdVars

\* the caller calls wait()
CallWait ==
    /\ pc = "idle"
    /\ ~dmaBorrow.panicked
    /\ \E i \in Transfers : cur' = i
    /\ op' = "wait"
    /\ pc' = "wait_poll"
    /\ UNCHANGED <<regs, xfer, ret, wres, writes, dmaBorrow>>
    /\ UNCHANGED validVars
    /\ UNCHANGED sdVars

\* wait(): while self.is_active() {}
WaitPoll ==
    /\ pc = "wait_poll"
    /\ ~dmaBorrow.panicked
    /\ dmaBorrow' = Reads(is_active_reads(regs, xfer[cur]))
    /\ pc' = IF is_active(regs, xfer[cur]) THEN "wait_poll" ELSE "wait_is_error"
    /\ UNCHANGED <<regs, xfer, op, cur, ret, wres, writes>>
    /\ UNCHANGED validVars
    /\ UNCHANGED sdVars

\* wait(): !self.is_error(). execute() goes on to stop()
WaitIsError ==
    /\ pc = "wait_is_error"
    /\ ~dmaBorrow.panicked
    /\ dmaBorrow' = Reads(is_error_reads(regs, xfer[cur]))
    /\ IF op = "execute"
       THEN /\ wres' = ~is_error(regs, xfer[cur])
            /\ pc' = "execute_stop"
            /\ ret' = ret
       ELSE /\ Return(RetBool(~is_error(regs, xfer[cur])))
            /\ wres' = wres
    /\ UNCHANGED <<regs, xfer, op, cur, writes>>
    /\ UNCHANGED validVars
    /\ UNCHANGED sdVars

\* execute(): self.stop(); Ok(result)
ExecuteStop ==
    /\ pc = "execute_stop"
    /\ ~dmaBorrow.panicked
    /\ Write(stop_writes(xfer[cur]))
    /\ Return(RetOkBool(wres))
    /\ UNCHANGED <<xfer, op, cur, wres>>
    /\ UNCHANGED validVars
    /\ UNCHANGED sdVars

\* the caller calls stop()
CallStop ==
    /\ pc = "idle"
    /\ ~dmaBorrow.panicked
    /\ \E i \in Transfers :
        /\ cur' = i
        /\ dmaBorrow' = Writes(stop_writes(xfer[i]))
        /\ regs' = Adapter_write_all(regs, xfer[i].stream, stop_writes(xfer[i]))
        /\ writes' = writes \o LogOf(xfer[i].stream, stop_writes(xfer[i]))
    /\ op' = "stop"
    /\ Return(RetUnit)
    /\ UNCHANGED <<xfer, wres>>
    /\ UNCHANGED validVars
    /\ UNCHANGED sdVars

\* the caller calls is_active() or is_ready()
CallIsActive ==
    /\ pc = "idle"
    /\ ~dmaBorrow.panicked
    /\ \E i \in Transfers :
        /\ cur' = i
        /\ dmaBorrow' = Reads(is_active_reads(regs, xfer[i]))
        /\ \/ /\ op' = "is_active"
              /\ Return(RetBool(is_active(regs, xfer[i])))
           \/ /\ op' = "is_ready"
              /\ Return(RetBool(is_ready(regs, xfer[i])))
    /\ UNCHANGED <<regs, xfer, wres, writes>>
    /\ UNCHANGED validVars
    /\ UNCHANGED sdVars

\* the caller takes the returned value; the next call starts a new log
Returned ==
    /\ pc = "returned"
    /\ ~dmaBorrow.panicked
    /\ pc' = "idle"
    /\ op' = "none"
    /\ ret' = NoRet
    /\ wres' = FALSE
    /\ writes' = <<>>
    /\ cur' = 1
    /\ UNCHANGED <<regs, xfer, dmaBorrow>>
    /\ UNCHANGED validVars
    /\ UNCHANGED sdVars

(***************************************************************************)
(* The DMA engine: on a stream that is enabled it raises the sticky flags  *)
(* the descriptor reads or clears (half transfer, transfer complete,       *)
(* transfer error, direct mode error), and on the end of the transfer or   *)
(* on a transfer error it may clear the enable bit itself. It does nothing *)
(* at the instant a call returns.                                          *)
(***************************************************************************)
HwRaise(s, f, mayDisable) ==
    /\ pc # "returned"
    /\ regs[s].en = "Enable"
    /\ regs[s][f] = "NotRaised"
    /\ \E e \in (IF mayDisable THEN {"Enable", "Disable"} ELSE {"Enable"}) :
          regs' = [regs EXCEPT ![s][f] = "Raised", ![s].en = e]
    /\ UNCHANGED <<xfer, pc, op, cur, ret, wres, writes, dmaBorrow>>
    /\ UNCHANGED validVars
    /\ UNCHANGED sdVars

HwHalfTransfer == \E s \in Stream : HwRaise(s, "htif", FALSE)

HwTransferComplete == \E s \in Stream : HwRaise(s, "tcif", TRUE)

HwTransferError == \E s \in Stream : HwRaise(s, "teif", TRUE)

HwDirectModeError == \E s \in Stream : HwRaise(s, "dmeif", FALSE)

Next ==
    \/ CallStart
    \/ StartIsReady
    \/ ConfigureFlags
    \/ ConfigureFields
    \/ StartEnable
    \/ CallWait
    \/ WaitPoll
    \/ WaitIsError
    \/ ExecuteStop
    \/ CallStop
    \/ CallIsActive
    \/ Returned
    \/ HwHalfTransfer
    \/ HwTransferComplete
    \/ HwTransferError
    \/ HwDirectModeError

Spec == Init /\ [][Next]_vars

(***************************************************************************)
(* The quantities the validator's rules are stated in, read off the        *)
(* descriptor's fields.                                                    *)
(***************************************************************************)
BytesOf(w) == CASE w = "Byte" -> 1 [] w = "HalfWord" -> 2 [] w = "Word" -> 4

BeatsOf(b) ==
    CASE b = "SingleTransfer" -> 1
      [] b = "Incremental4" -> 4
      [] b = "Incremental8" -> 8
      [] b = "Incremental16" -> 16

EffectivePeripheralWidth(d) ==
    IF d.peripheral_increment_offset_size = "Force32Bit"
    THEN 4 ELSE BytesOf(d.peripheral.transaction_width)

MemoryBurstBytes(d) ==
    BeatsOf(d.memory.burst_mode) * BytesOf(d.memory.transaction_width)

PeripheralBurstBytes(d) ==
    BeatsOf(d.peripheral.burst_mode) * EffectivePeripheralWidth(d)

MemoryCountFactor(d) == MemoryBurstBytes(d) \div EffectivePeripheralWidth(d)

PeripheralCountFactor(d) == PeripheralBurstBytes(d)

IsMultipleOf(c, f) == \E k \in 0..c : c = k * f

AlignedTo(a, w) == \E k \in 0..a : a = k * BytesOf(w)

BytesToNextKb(a) == 1024 - (a % 1024)

MemoryTouchedBytes(d) ==
    BytesOf(d.memory.transaction_width)
        * (IF d.memory.increment_mode = "Increment"
           THEN d.transaction_count ELSE 1)

PeripheralTouchedBytes(d) ==
    EffectivePeripheralWidth(d)
        * (IF d.peripheral.increment_mode = "Increment"
           THEN d.transaction_count ELSE 1)

\* the 1 KB boundary rule as stated: the bytes touched exceed the bytes up to
\* the boundary, and these are no whole number of bursts
StraddlesKb(a, touched, burst) ==
    touched > BytesToNextKb(a) /\ BytesToNextKb(a) % burst # 0

CircularOrDoubleBuffer(d) ==
    d.circular_mode = "Enable" \/ d.double_buffering_mode # "Disable"

FifoCompatible(d) ==
    LET n == CASE d.fifo_threshold = "Quarter" -> 1
               [] d.fifo_threshold = "Half" -> 2
               [] d.fifo_threshold = "ThreeQuarter" -> 3
               [] d.fifo_threshold = "Full" -> 4
    IN  (n * 16) % (4 * MemoryBurstBytes(d)) = 0

CountAndAlignmentPass(d) ==
    /\ MemoryCountFactor(d) > 0
    /\ IsMultipleOf(d.transaction_count, MemoryCountFactor(d))
    /\ IsMultipleOf(d.transaction_count, PeripheralCountFactor(d))
    /\ AlignedTo(d.peripheral.address, d.peripheral.transaction_width)
    /\ AlignedTo(d.memory.address, d.memory.transaction_width)

Validated == vpc # "built"

(***************************************************************************)
(* C3 (as stated; the code contradicts it). With all earlier checks        *)
(* passing, is_valid() returns an endpoint's would-cross-one-kilobyte      *)
(* error exactly when the bytes the endpoint touches exceed the bytes up   *)
(* to the next 1024 byte boundary and that remainder is no multiple of the *)
(* endpoint's burst byte size.                                             *)
(***************************************************************************)
C3_BeforeMemoryKb ==
    {"TransactionCountNotAMultipleOf", "UnalignedPeripheralAddress",
     "UnalignedMemoryAddress",
     "CannotUseMemoryToMemoryTransferWithCircularMode",
     "CannotUseMemoryToMemoryTransferWithDirectMode"}

C3_KbBoundaryRule ==
    Validated =>
        /\ vresult.tag \notin C3_BeforeMemoryKb =>
            (vresult = Err("MemoryAccessWouldCrossOneKilobyteBoundary")
             <=> StraddlesKb(dv.memory.address, MemoryTouchedBytes(dv),
                             MemoryBurstBytes(dv)))
        /\ vresult.tag \notin
             (C3_BeforeMemoryKb
                \cup {"MemoryAccessWouldCrossOneKilobyteBoundary"}) =>
            (vresult = Err("PeripheralAccessWouldCrossOneKilobyteBoundary")
             <=> StraddlesKb(dv.peripheral.address, PeripheralTouchedBytes(dv),
                             PeripheralBurstBytes(dv)))

(***************************************************************************)
(* C4 (as stated; refuted). Every MemoryToMemory descriptor with circular  *)
(* mode or a double buffer gets the circular mode error, whatever its      *)
(* other fields.                                                           *)
(***************************************************************************)
C4_AlwaysCircularModeError ==
    (Validated /\ dv.direction = "MemoryToMemory" /\ CircularOrDoubleBuffer(dv))
        => vresult = Err("CannotUseMemoryToMemoryTransferWithCircularMode")

(***************************************************************************)
(* C4 (amended). Such a descriptor is never valid, and it gets the         *)
(* circular mode error exactly when the four earlier checks pass (count a  *)
(* multiple of both count factors, both addresses aligned), whatever the   *)
(* fields of the later checks (direct mode, 1 KB boundaries, FIFO          *)
(* threshold) are.                                                         *)
(***************************************************************************)
C4_CircularModeErrorAfterCountAndAlignment ==
    (Validated /\ dv.direction = "MemoryToMemory" /\ CircularOrDoubleBuffer(dv))
        => /\ vresult # NoError
           /\ (vresult = Err("CannotUseMemoryToMemoryTransferWithCircularMode"))
                <=> CountAndAlignmentPass(dv)

\* a double buffer with memory-to-memory, direct mode enabled as well, and
\* the circular mode error returned
C4_Witness ==
    /\ vpc = "validated"
    /\ dv.direction = "MemoryToMemory"
    /\ dv.double_buffering_mode # "Disable"
    /\ dv.direct_mode = "Enable"
    /\ vresult = Err("CannotUseMemoryToMemoryTransferWithCircularMode")

(***************************************************************************)
(* C5 (as stated; the code contradicts it, through the 1 KB check of C3).  *)
(* A descriptor that satisfies every rule of the validator as the rules    *)
(* are stated is found valid.                                              *)
(***************************************************************************)
C5_SatisfiesStatedRules(d) ==
    /\ CountAndAlignmentPass(d)
    /\ ~(d.direction = "MemoryToMemory" /\ CircularOrDoubleBuffer(d))
    /\ ~(d.direction = "MemoryToMemory" /\ d.direct_mode = "Enable")
    /\ ~StraddlesKb(d.memory.address, MemoryTouchedBytes(d), MemoryBurstBytes(d))
    /\ ~StraddlesKb(d.peripheral.address, PeripheralTouchedBytes(d),
                    PeripheralBurstBytes(d))
    /\ FifoCompatible(d)

C5_StatedRulesImplyNoError ==
    (Validated /\ C5_SatisfiesStatedRules(dv)) => vresult = NoError

(***************************************************************************)
(* C6. A transaction count that is no multiple of the memory count factor  *)
(* (memory burst bytes divided by the effective peripheral width) gets     *)
(* TransactionCountNotAMultipleOf with that factor; otherwise one that is  *)
(* no multiple of the peripheral count factor (peripheral burst bytes)     *)
(* gets TransactionCountNotAMultipleOf with that factor.                   *)
(***************************************************************************)
C6_CountFactorErrors ==
    Validated =>
        LET c == dv.transaction_count
            mf == MemoryCountFactor(dv)
            pf == PeripheralCountFactor(dv)
        IN  /\ ~IsMultipleOf(c, mf)
                => vresult = TransactionCountNotAMultipleOf(mf)
            /\ (IsMultipleOf(c, mf) /\ mf # 0 /\ ~IsMultipleOf(c, pf))
                => vresult = TransactionCountNotAMultipleOf(pf)

\* the increment offset forced to 32 bit, a peripheral narrower than that,
\* and a count that is no multiple of the memory factor
C6_Witness ==
    /\ vpc = "validated"
    /\ dv.peripheral_increment_offset_size = "Force32Bit"
    /\ dv.peripheral.transaction_width # "Word"
    /\ MemoryCountFactor(dv) > 1
    /\ ~IsMultipleOf(dv.transaction_count, MemoryCountFactor(dv))
    /\ vresult = TransactionCountNotAMultipleOf(MemoryCountFactor(dv))

(***************************************************************************)
(* C7. From a valid descriptor, an endpoint's address moved one byte off   *)
(* its own width alignment gets that endpoint's unaligned-address error,   *)
(* and the address alone put back gets no error again.                     *)
(***************************************************************************)
C7_OneByteOffThenRestored ==
    /\ vpc = "moved" =>
        vresult = IF vmoved[1] = "memory"
                  THEN Err("UnalignedMemoryAddress")
                  ELSE Err("UnalignedPeripheralAddress")
    /\ vpc = "restored" => vresult = NoError

\* a memory address moved off a width wider than the peripheral's, and put back
C7_Witness ==
    /\ vpc = "restored"
    /\ vmoved[1] = "memory"
    /\ BytesOf(dv.memory.transaction_width)
         > BytesOf(dv.peripheral.transaction_width)
    /\ vresult = NoError

(***************************************************************************)
(* C8. is_valid() returns the error of the first violated check in the     *)
(* order: memory count factor, peripheral count factor, peripheral         *)
(* alignment, memory alignment, circular or double buffer with             *)
(* memory-to-memory, direct mode with memory-to-memory, memory 1 KB        *)
(* boundary, peripheral 1 KB boundary, FIFO threshold; and no error when   *)
(* no check is violated. The 1 KB checks compare as the code does (C3).    *)
(***************************************************************************)
C8_KbCheck(a, touched, burst) ==
    BytesToNextKb(a) > touched /\ BytesToNextKb(a) % burst # 0

C8_Violated(d) ==
    << MemoryCountFactor(d) = 0
         \/ ~IsMultipleOf(d.transaction_count, MemoryCountFactor(d)),
       ~IsMultipleOf(d.transaction_count, PeripheralCountFactor(d)),
       ~AlignedTo(d.peripheral.address, d.peripheral.transaction_width),
       ~AlignedTo(d.memory.address, d.memory.transaction_width),
       d.direction = "MemoryToMemory" /\ CircularOrDoubleBuffer(d),
       d.direction = "MemoryToMemory" /\ d.direct_mode = "Enable",
       C8_KbCheck(d.memory.address, MemoryTouchedBytes(d), MemoryBurstBytes(d)),
       C8_KbCheck(d.peripheral.address, PeripheralTouchedBytes(d),
                  PeripheralBurstBytes(d)),
       ~FifoCompatible(d),
       TRUE >>

C8_Errors(d) ==
    << TransactionCountNotAMultipleOf(MemoryCountFactor(d)),
       TransactionCountNotAMultipleOf(PeripheralCountFactor(d)),
       Err("UnalignedPeripheralAddress"),
       Err("UnalignedMemoryAddress"),
       Err("CannotUseMemoryToMemoryTransferWithCircularMode"),
       Err("CannotUseMemoryToMemoryTransferWithDirectMode"),
       Err("MemoryAccessWouldCrossOneKilobyteBoundary"),
       Err("PeripheralAccessWouldCrossOneKilobyteBoundary"),
       Err("InvalidFifoThresholdMemoryBurstCombination"),
       NoError >>

C8_FirstViolatedCheckDecides ==
    Validated =>
        LET v == C8_Violated(dv)
            first == CHOOSE i \in 1..10 : v[i] /\ \A j \in 1..(i - 1) : ~v[j]
        IN  vresult = C8_Errors(dv)[first]

\* both addresses unaligned and memory-to-memory with direct mode: three
\* checks violated at once, the peripheral alignment error returned
C8_Witness ==
    /\ vpc = "validated"
    /\ C8_Violated(dv)[3] /\ C8_Violated(dv)[4] /\ C8_Violated(dv)[6]
    /\ vresult = Err("UnalignedPeripheralAddress")

(***************************************************************************)
(* The execution state machine's claims speak of the stream the call is    *)
(* made on and of the instant a call returns.                              *)
(***************************************************************************)
TargetStream == xfer[cur].stream

ReturnedFrom(o) == pc = "returned" /\ op = o

FlagNames == {"htif", "tcif", "teif", "feif", "dmeif"}

\* the configuration registers and the descriptor field each is to hold
ConfigurationOf(d) ==
    [channel |-> d.channel, pl |-> d.priority, dir |-> d.direction,
     circ |-> d.circular_mode, dbm |-> d.double_buffering_mode,
     pfctrl |-> d.flow_controller,
     psize |-> d.peripheral.transaction_width,
     pinc |-> d.peripheral.increment_mode,
     pburst |-> d.peripheral.burst_mode,
     pincos |-> d.peripheral_increment_offset_size,
     par |-> d.peripheral.address,
     msize |-> d.memory.transaction_width,
     minc |-> d.memory.increment_mode,
     mburst |-> d.memory.burst_mode,
     m0ar |-> d.memory.address,
     ndtr |-> d.transaction_count,
     dmdis |-> d.direct_mode, fth |-> d.fifo_threshold,
     tcie |-> d.interrupt_transfer_complete,
     htie |-> d.interrupt_half_transfer,
     teie |-> d.interrupt_transfer_error,
     dmeie |-> d.interrupt_direct_mode_error,
     feie |-> d.interrupt_fifo]

ConfigurationNames == DOMAIN ConfigurationOf(IdleDescriptor)

(***************************************************************************)
(* C1 (as stated; refuted). After execute() returns, the enable bit of the *)
(* targeted stream is Disable, on every path and from every prior state of *)
(* the stream.                                                             *)
(***************************************************************************)
C1_ExecuteAlwaysLeavesStreamDisabled ==
    ReturnedFrom("execute") => regs[TargetStream].en = "Disable"

(***************************************************************************)
(* C1 (amended). When execute() returns Ok, with or without a hardware     *)
(* error seen by wait(), its last register write disabled the targeted     *)
(* stream and the enable bit is Disable. When start() is rejected,         *)
(* execute() returns the error and has written no register: the enable bit *)
(* is left as it was.                                                      *)
(***************************************************************************)
C1_ExecuteStopsTheStreamItStarted ==
    ReturnedFrom("execute") =>
        /\ ret.tag \in {"Ok", "Err"}
        /\ ret.tag = "Ok" =>
            /\ writes # <<>>
            /\ writes[Len(writes)] = <<TargetStream, "en", "Disable">>
            /\ regs[TargetStream].en = "Disable"
        /\ ret.tag = "Err" => writes = <<>>

\* execute() returned Ok(false): wait() ended on a hardware error
C1_Witness ==
    /\ ReturnedFrom("execute")
    /\ ret.tag = "Ok"
    /\ ret.value = FALSE
    /\ is_error(regs, xfer[cur])

(***************************************************************************)
(* C2. Whenever start() returns an error it has written no register, and   *)
(* the error is the one is_valid() reports for an invalid descriptor       *)
(* (StreamNotReady for a valid one).                                       *)
(***************************************************************************)
C2_RejectedStartWritesNothing ==
    (pc = "returned" /\ op \in {"start", "execute"} /\ ret.tag = "Err") =>
        /\ writes = <<>>
        /\ ret.error = IF is_valid(xfer[cur]) # NoError
                       THEN is_valid(xfer[cur])
                       ELSE Err("StreamNotReady")

\* start() returned StreamNotReady for a valid descriptor whose stream
\* another descriptor had configured and armed
C2_Witness ==
    /\ ReturnedFrom("start")
    /\ ret.tag = "Err"
    /\ ret.error = Err("StreamNotReady")
    /\ regs[TargetStream].en = "Enable"
    /\ regs[TargetStream].m0ar # xfer[cur].memory.address

(***************************************************************************)
(* C9. A start() that returns Ok has written, all on its own stream: first *)
(* the clears of the sticky flags (half transfer, transfer complete,       *)
(* transfer error, direct mode error among them), then every configuration *)
(* field with the descriptor's value, and last, and only then, Enable to   *)
(* the enable bit; the stream is enabled and configured when it returns.   *)
(***************************************************************************)
C9_StartClearsConfiguresThenEnables ==
    (ReturnedFrom("start") /\ ret.tag = "Ok") =>
        LET n == Len(writes)
            nf == Cardinality(FlagNames)
            want == ConfigurationOf(xfer[cur])
        IN  /\ n = nf + Cardinality(ConfigurationNames) + 1
            /\ \A i \in 1..n : writes[i][1] = TargetStream
            /\ \A i \in 1..nf :
                  writes[i][2] \in FlagNames /\ writes[i][3] = "NotRaised"
            /\ \A f \in {"htif", "tcif", "teif", "dmeif"} :
                  \E i \in 1..nf : writes[i][2] = f
            /\ \A i \in (nf + 1)..(n - 1) :
                  /\ writes[i][2] \in ConfigurationNames
                  /\ writes[i][3] = want[writes[i][2]]
            /\ \A f \in ConfigurationNames :
                  /\ \E i \in (nf + 1)..(n - 1) : writes[i][2] = f
                  /\ regs[TargetStream][f] = want[f]
            /\ writes[n] = <<TargetStream, "en", "Enable">>
            /\ regs[TargetStream].en = "Enable"

\* start() returned Ok on a stream that holds this descriptor's memory
\* address, written over another descriptor's
C9_Witness ==
    /\ ReturnedFrom("start")
    /\ ret.tag = "Ok"
    /\ cur = 2
    /\ regs[TargetStream].m0ar = xfer[cur].memory.address
    /\ regs[TargetStream].en = "Enable"

(***************************************************************************)
(* C10. is_active() is true exactly when the stream's enable bit is set    *)
(* and none of the transfer complete, transfer error and direct mode error *)
(* flags is raised. wait() leaves its loop only when that is false, goes   *)
(* on polling while it is true, writes no register, and returns true       *)
(* exactly when neither error flag is raised as it returns.                *)
(***************************************************************************)
C10_EnabledAndUnflagged(s) ==
    /\ regs[s].en = "Enable"
    /\ regs[s].tcif = "NotRaised"
    /\ regs[s].teif = "NotRaised"
    /\ regs[s].dmeif = "NotRaised"

C10_WaitState ==
    /\ ReturnedFrom("is_active") =>
          ret.value = C10_EnabledAndUnflagged(TargetStream)
    /\ (pc = "wait_is_error" \/ ReturnedFrom("wait")) =>
          ~C10_EnabledAndUnflagged(TargetStream)
    /\ ReturnedFrom("wait") =>
          /\ writes = <<>>
          /\ ret.value = (/\ regs[TargetStream].teif = "NotRaised"
                          /\ regs[TargetStream].dmeif = "NotRaised")

C10_WaitStep ==
    (pc = "wait_poll" /\ C10_EnabledAndUnflagged(TargetStream))
        => pc' = "wait_poll"

C10_IsActiveAndWait == [](C10_WaitState) /\ [][C10_WaitStep]_vars

\* wait() returned false on a stream still enabled, its direct mode error
\* flag raised
C10_Witness ==
    /\ ReturnedFrom("wait")
    /\ ret.value = FALSE
    /\ regs[TargetStream].en = "Enable"
    /\ regs[TargetStream].dmeif = "Raised"
    /\ regs[TargetStream].teif = "NotRaised"
    /\ regs[TargetStream].tcif = "NotRaised"

(***************************************************************************)
(* C11. stop() disables the stream it is called on from every prior state  *)
(* of the stream (never started, armed, completed, errored); it changes no *)
(* register but that stream's enable bit; and a second stop() leaves the   *)
(* registers as the first left them.                                       *)
(***************************************************************************)
C11_Stopped ==
    ReturnedFrom("stop") =>
        /\ regs[TargetStream].en = "Disable"
        /\ writes = << <<TargetStream, "en", "Disable">> >>

\* the step of stop(): only the enable bit of its stream moves, and on a
\* stream already disabled no register moves at all
C11_StopStep ==
    (pc = "idle" /\ pc' = "returned" /\ op' = "stop") =>
        /\ \A s \in Stream, f \in DOMAIN ResetStream :
              (s # xfer[cur'].stream \/ f # "en") => regs'[s][f] = regs[s][f]
        /\ regs[xfer[cur'].stream].en = "Disable" => regs' = regs

C11_StopDisablesOnlyItsStream == [](C11_Stopped) /\ [][C11_StopStep]_vars

\* stop() returned on a stream that was started and ran into a transfer
\* error: the flag still stands, the other stream is still armed
C11_Witness ==
    /\ ReturnedFrom("stop")
    /\ regs[TargetStream].teif = "Raised"
    /\ regs[TargetStream].en = "Disable"
    /\ \E s \in Stream : s # TargetStream /\ regs[s].en = "Enable"

(***************************************************************************)
(* SD command dispatch and response waits (src/src/sd/command.rs).         *)
(* A u32 is kept as <<upper half, lower half>>, each half in 0..65535.     *)
(***************************************************************************)
RECURSIVE BitAnd(_, _)
\* a & b on one half
BitAnd(a, b) ==
    IF a = 0 \/ b = 0 THEN 0
    ELSE (a % 2) * (b % 2) + 2 * BitAnd(a \div 2, b \div 2)

RECURSIVE BitOr(_, _)
\* a | b on one half
BitOr(a, b) ==
    IF a = 0 THEN b
    ELSE IF b = 0 THEN a
    ELSE (IF a % 2 = 1 \/ b % 2 = 1 THEN 1 ELSE 0)
            + 2 * BitOr(a \div 2, b \div 2)

WordAnd(w, m) == <<BitAnd(w[1], m[1]), BitAnd(w[2], m[2])>>

WordOr(w, m) == <<BitOr(w[1], m[1]), BitOr(w[2], m[2])>>

\* x << 16 on a u32: the lower half moves up, the upper half is shifted out
Shl16(w) == <<w[2], 0>>

\* (x >> 16) as u16
Shr16_as_u16(w) == w[1]

\* a u32 argument below 65536
Word(n) == <<0, n>>

\* the chain of check_ocr_error_bits after its first test, in its order: the
\* bit tested and the code returned
OcrChain ==
    << << <<\h8000, 0>>, "ADDR_OUT_OF_RANGE" >>,
       << <<\h4000, 0>>, "ADDR_MISALIGNED" >>,
       << <<\h2000, 0>>, "BLOCK_LEN_ERR" >>,
       << <<\h1000, 0>>, "ERASE_SEQ_ERR" >>,
       << <<\h0800, 0>>, "BAD_ERASE_PARAM" >>,
       << <<\h0400, 0>>, "WRITE_PROT_VIOLATION" >>,
       << <<\h0100, 0>>, "LOCK_UNLOCK_FAILED" >>,
       << <<\h0080, 0>>, "COM_CRC_FAILED" >>,
       << <<\h0040, 0>>, "ILLEGAL_CMD" >>,
       << <<\h0020, 0>>, "CARD_ECC_FAILED" >>,
       << <<\h0010, 0>>, "CC_ERR" >>,
       << <<\h0004, 0>>, "STREAM_READ_UNDERRUN" >>,
       << <<\h0002, 0>>, "STREAM_WRITE_OVERRUN" >>,
       << <<\h0001, 0>>, "CID_CSD_OVERWRITE" >>,
       << <<0, \h8000>>, "WP_ERASE_SKIP" >>,
       << <<0, \h4000>>, "CARD_ECC_DISABLED" >>,
       << <<0, \h2000>>, "ERASE_RESET" >>,
       << <<0, \h0008>>, "AKE_SEQ_ERR" >> >>

\* the first test of check_ocr_error_bits: resp1 & 0xFDFFE008
OcrErrorMask == <<\hFDFF, \hE008>>

\* if .. else if .. else over a chain: the code of the first entry whose bit
\* is set in the word, GENERAL_UNKNOWN_ERR when the chain ends
ElseIfChain(r, chain) ==
    LET hit(i) == WordAnd(r, chain[i][1]) = chain[i][1]
    IN  IF \E i \in 1..Len(chain) : hit(i)
        THEN chain[CHOOSE i \in 1..Len(chain) :
                      hit(i) /\ \A j \in 1..(i - 1) : ~hit(j)][2]
        ELSE "GENERAL_UNKNOWN_ERR"

\* check_ocr_error_bits testing bit 30 before bit 31
check_ocr_error_bits_misaligned_first(r) ==
    IF WordAnd(r, OcrErrorMask) = <<0, 0>>
    THEN "NONE"
    ELSE ElseIfChain(r, <<OcrChain[2], OcrChain[1]>>
                           \o SubSeq(OcrChain, 3, Len(OcrChain)))

check_ocr_error_bits(r) ==
    IF WordAnd(r, OcrErrorMask) = <<0, 0>>
    THEN "NONE"
    ELSE ElseIfChain(r, OcrChain)

(***************************************************************************)
(* The eight dispatch operations: argument, command fields, response wait. *)
(***************************************************************************)
SdOperations ==
    {"cmd_go_idle_state", "cmd_all_send_cid", "cmd_send_relative_addr",
     "cmd_select_deselect_card", "cmd_send_if_cond", "cmd_send_csd",
     "cmd_app_cmd", "cmd_sd_send_op_cond"}

CardCapacity == {"Standard", "High"}

\* capacity as u32
capacity_as_u32(c) == IF c = "High" THEN <<\h4000, 0>> ELSE <<0, 0>>

\* the polling budget of every wait, in ticks
SDMMC_CMDTIMEOUT == 5000

\* The tick counter and the deadline are usize values, 32 bits wide on the
\* target: <<upper half, lower half>> as the other 32 bit words.
\* a < b
usize_lt(a, b) == a[1] < b[1] \/ (a[1] = b[1] /\ a[2] < b[2])

\* a + n does not fit into a usize (n below 65536)
usize_add_overflows(a, n) == a[1] + ((a[2] + n) \div U16) >= U16

\* a + n modulo 2^32 (n below 65536)
usize_wrapping_add(a, n) ==
    <<(a[1] + ((a[2] + n) \div U16)) % U16, (a[2] + n) % U16>>

usize_MAX == <<U16 - 1, U16 - 1>>

\* the tick before a
usize_pred(a) ==
    IF a[2] > 0 THEN <<a[1], a[2] - 1>> ELSE <<(a[1] + U16 - 1) % U16, U16 - 1>>

\* the argument with the RCA left in the lower half
cmd_argument_rca_unshifted(c) ==
    CASE c.op \in {"cmd_go_idle_state", "cmd_all_send_cid",
                   "cmd_send_relative_addr"} -> Word(0)
      [] c.op \in {"cmd_select_deselect_card", "cmd_send_csd", "cmd_app_cmd"}
           -> c.rca
      [] c.op = "cmd_send_if_cond" -> Word(\h1AA)
      [] c.op = "cmd_sd_send_op_cond"
           -> WordOr(<<\h8010, 0>>, capacity_as_u32(c.capacity))

\* arg.set_cmdarg(..) of the operation
cmd_argument(c) ==
    CASE c.op \in {"cmd_go_idle_state", "cmd_all_send_cid",
                   "cmd_send_relative_addr"} -> Word(0)
      [] c.op \in {"cmd_select_deselect_card", "cmd_send_csd", "cmd_app_cmd"}
           -> Shl16(c.rca)
      [] c.op = "cmd_send_if_cond" -> Word(\h1AA)
      [] c.op = "cmd_sd_send_op_cond"
           -> WordOr(<<\h8010, 0>>, capacity_as_u32(c.capacity))

cmd_waitresp(o) ==
    CASE o = "cmd_go_idle_state" -> "No"
      [] o \in {"cmd_all_send_cid", "cmd_send_csd"} -> "Long"
      [] OTHER -> "Short"

cmd_index(o) ==
    CASE o = "cmd_go_idle_state" -> 0
      [] o = "cmd_all_send_cid" -> 2
      [] o = "cmd_send_relative_addr" -> 3
      [] o = "cmd_select_deselect_card" -> 7
      [] o = "cmd_send_if_cond" -> 8
      [] o = "cmd_send_csd" -> 9
      [] o = "cmd_app_cmd" -> 55
      [] o = "cmd_sd_send_op_cond" -> 41

\* the wait the operation ends with
cmd_wait(o) ==
    CASE o = "cmd_go_idle_state" -> "get_cmd_error"
      [] o \in {"cmd_all_send_cid", "cmd_send_csd"} -> "get_response2"
      [] o = "cmd_send_relative_addr" -> "get_response6"
      [] o \in {"cmd_select_deselect_card", "cmd_app_cmd"} -> "get_response1"
      [] o = "cmd_send_if_cond" -> "get_response7"
      [] o = "cmd_sd_send_op_cond" -> "get_response3"

\* cmd.update(|cmd| ..): the fields every operation sets
cmd_update(cmd, o) ==
    [cmd EXCEPT !.sdiosuspend = FALSE, !.waitpend = FALSE, !.waitint = FALSE,
                !.waitresp = cmd_waitresp(o), !.cpsmen = TRUE,
                !.cmdindex = cmd_index(o)]

\* the values the waits return
RetCode(c) == [tag |-> "Code", code |-> c]
RetOkU16(v) == [tag |-> "Ok", value |-> v]

\* the wait returns code c: as Err(c) from get_response6, as c from the others
wait_error(w, c) == IF w = "get_response6" THEN RetErr(c) ELSE RetCode(c)

\* get_response6 looking for its error bits in the upper half of the response
response6_decode_upper_half(r) ==
    IF BitAnd(r[1], \h4000) # 0 THEN RetErr("ILLEGAL_CMD")
    ELSE IF BitAnd(r[1], \h8000) # 0 THEN RetErr("COM_CRC_FAILED")
    ELSE IF BitAnd(r[1], \h2000) # 0 THEN RetErr("GENERAL_UNKNOWN_ERR")
    ELSE RetOkU16(Shr16_as_u16(r))

\* get_response6 after the index check: the error bits of the response, else
\* the relative address
response6_decode(r) ==
    IF BitAnd(r[2], \h4000) # 0 THEN RetErr("ILLEGAL_CMD")
    ELSE IF BitAnd(r[2], \h8000) # 0 THEN RetErr("COM_CRC_FAILED")
    ELSE IF BitAnd(r[2], \h2000) # 0 THEN RetErr("GENERAL_UNKNOWN_ERR")
    ELSE RetOkU16(Shr16_as_u16(r))

\* the index check accepting every echoed index
correct_resp_command_number_any(rc, idx) == TRUE

correct_resp_command_number(rc, idx) == rc = idx

\* icr.update(|icr| icr.set_<flag>c(true)): the controller clears the flag
icr_clear(st, f) == [st EXCEPT ![f] = FALSE]

\* clear_all_static_status_flags(): every static flag is cleared
clear_all_static_status_flags(st) ==
    [f \in DOMAIN st |-> FALSE]

(***************************************************************************)
(* One dispatch operation, step by step: the two register writes, then the *)
(* polling loop of its wait.                                               *)
(***************************************************************************)
\* calls are started within this many ticks of either end of the range of
\* the tick counter (a wait's deadline is relative to the tick at its entry)
MaxTicks == 0

EntryTicks ==
    {<<0, n>> : n \in 0..MaxTicks}
      \cup {<<usize_MAX[1], usize_MAX[2] - n>> : n \in 0..MaxTicks}

RcaSet == {<<1, \h1234>>}

SdCalls ==
    {[op |-> o] : o \in {"cmd_go_idle_state", "cmd_all_send_cid",
                         "cmd_send_relative_addr", "cmd_send_if_cond"}}
      \cup {[op |-> o, rca |-> r] :
               o \in {"cmd_select_deselect_card", "cmd_send_csd", "cmd_app_cmd"},
               r \in RcaSet}
      \cup {[op |-> "cmd_sd_send_op_cond", capacity |-> c] : c \in CardCapacity}

SdWait == cmd_wait(scall.op)

SdReturn(v) ==
    /\ spc' = "returned"
    /\ sret' = v

\* self.registers.arg.update(|arg| arg.set_cmdarg(..))
SdWriteArg ==
    /\ spc = "idle"
    /\ ticks \in EntryTicks
    /\ \E c \in SdCalls :
        /\ scall' = c
        /\ sd_arg' = cmd_argument(c)
        /\ swrites' = Append(swrites, <<"arg", cmd_argument(c)>>)
    /\ spc' = "arg_written"
    /\ UNCHANGED <<sta, sd_cmd, respcmd, resp1, cpsm, ticks, timeout, sret>>
    /\ UNCHANGED <<validVars, dmaVars>>

\* self.registers.cmd.update(|cmd| { .. }): cpsmen starts the command path
SdWriteCmd ==
    /\ spc = "arg_written"
    /\ sd_cmd' = cmd_update(sd_cmd, scall.op)
    /\ swrites' = Append(swrites, <<"cmd", cmd_update(sd_cmd, scall.op)>>)
    /\ cpsm' = "busy"
    /\ spc' = "wait_entry"
    /\ UNCHANGED <<sta, sd_arg, respcmd, resp1, ticks, timeout, scall, sret>>
    /\ UNCHANGED <<validVars, dmaVars>>

\* let timeout = ::system_clock::ticks() + 5000: an addition that overflows
\* panics in a build with overflow checks and wraps in a build without
SdWaitEntry ==
    /\ spc = "wait_entry"
    /\ \/ /\ timeout' = usize_wrapping_add(ticks, SDMMC_CMDTIMEOUT)
          /\ spc' = "loop"
       \/ /\ usize_add_overflows(ticks, SDMMC_CMDTIMEOUT)
          /\ timeout' = timeout
          /\ spc' = "panicked"
    /\ UNCHANGED <<sta, sd_arg, sd_cmd, respcmd, resp1, cpsm, ticks, scall, sret,
                   swrites>>
    /\ UNCHANGED <<validVars, dmaVars>>

\* a response wait testing the CRC-failure flag first
first_test_ccrcfail(w) ==
    IF w = "get_cmd_error" THEN "t_cmdsent" ELSE "t_ccrcfail"

\* the flag a wait tests first in its loop
first_test(w) == IF w = "get_cmd_error" THEN "t_cmdsent" ELSE "t_ctimeout"

\* while ::system_clock::ticks() < timeout { .. } low_level::TIMEOUT
SdLoopTest ==
    /\ spc = "loop"
    /\ IF usize_lt(ticks, timeout)
       THEN /\ spc' = first_test(SdWait)
            /\ sret' = sret
       ELSE SdReturn(wait_error(SdWait, "TIMEOUT"))
    /\ UNCHANGED <<sta, sd_arg, sd_cmd, respcmd, resp1, cpsm, ticks, timeout,
                   scall, swrites>>
    /\ UNCHANGED <<validVars, dmaVars>>

\* get_cmd_error clearing the command-sent flag it found set
SdTestCmdsent_clearing ==
    /\ spc = "t_cmdsent"
    /\ IF sta.cmdsent
       THEN /\ sta' = icr_clear(sta, "cmdsent")
            /\ swrites' = Append(swrites, <<"icr", "cmdsentc">>)
            /\ SdReturn(RetCode("NONE"))
       ELSE /\ spc' = "loop"
            /\ UNCHANGED <<sta, swrites, sret>>
    /\ UNCHANGED <<sd_arg, sd_cmd, respcmd, resp1, cpsm, ticks, timeout, scall>>
    /\ UNCHANGED <<validVars, dmaVars>>

\* get_cmd_error: if self.registers.sta.read().cmdsent() { return NONE }
SdTestCmdsent ==
    /\ spc = "t_cmdsent"
    /\ IF sta.cmdsent
       THEN SdReturn(RetCode("NONE"))
       ELSE /\ spc' = "loop"
            /\ sret' = sret
    /\ UNCHANGED <<sta, sd_arg, sd_cmd, respcmd, resp1, cpsm, ticks, timeout,
                   scall, swrites>>
    /\ UNCHANGED <<validVars, dmaVars>>

\* if self.registers.sta.read().ctimeout() { icr.set_ctimeoutc(true);
\* return CMD_RSP_TIMEOUT }
SdTestCtimeout ==
    /\ spc = "t_ctimeout"
    /\ IF sta.ctimeout
       THEN /\ sta' = icr_clear(sta, "ctimeout")
            /\ swrites' = Append(swrites, <<"icr", "ctimeoutc">>)
            /\ SdReturn(wait_error(SdWait, "CMD_RSP_TIMEOUT"))
       ELSE /\ spc' = "t_ccrcfail"
            /\ UNCHANGED <<sta, swrites, sret>>
    /\ UNCHANGED <<sd_arg, sd_cmd, respcmd, resp1, cpsm, ticks, timeout, scall>>
    /\ UNCHANGED <<validVars, dmaVars>>

\* one write to the interrupt-clear register and what the controller does
\* with it: "static" is clear_all_static_status_flags(), the others one bit
icr_write(st, what) ==
    CASE what = "static" -> clear_all_static_status_flags(st)
      [] what = "ctimeoutc" -> icr_clear(st, "ctimeout")
      [] what = "ccrcfailc" -> icr_clear(st, "ccrcfail")
      [] what = "cmdrendc" -> icr_clear(st, "cmdrend")

\* only get_response7 taking a set CRC-failure flag for success
ccrcfail_code_r7_only(w) ==
    IF w = "get_response7" THEN "NONE" ELSE "CMD_CRC_FAIL"

\* what a wait returns on a set CRC-failure flag, and what it clears
ccrcfail_code(w) ==
    IF w \in {"get_response3", "get_response7"} THEN "NONE" ELSE "CMD_CRC_FAIL"

ccrcfail_clear(w) == IF w = "get_response3" THEN "static" ELSE "ccrcfailc"

\* what a wait without index check clears on a set response-end flag
cmdrend_clear(w) == IF w = "get_response7" THEN "cmdrendc" ELSE "static"

\* get_response7 checking the echoed index as well
index_checked_and_r7(w) ==
    w \in {"get_response1", "get_response6", "get_response7"}

\* the waits that check the echoed command index
index_checked(w) == w \in {"get_response1", "get_response6"}

\* if self.registers.sta.read().ccrcfail() { .. }    (in get_response3 the
\* left operand of ccrcfail() || cmdrend())
SdTestCcrcfail ==
    /\ spc = "t_ccrcfail"
    /\ IF sta.ccrcfail
       THEN /\ sta' = icr_write(sta, ccrcfail_clear(SdWait))
            /\ swrites' = Append(swrites, <<"icr", ccrcfail_clear(SdWait)>>)
            /\ SdReturn(wait_error(SdWait, ccrcfail_code(SdWait)))
       ELSE /\ spc' = "t_cmdrend"
            /\ UNCHANGED <<sta, swrites, sret>>
    /\ UNCHANGED <<sd_arg, sd_cmd, respcmd, resp1, cpsm, ticks, timeout, scall>>
    /\ UNCHANGED <<validVars, dmaVars>>

\* the response-end branch also resetting the command register
SdTestCmdrend_resetting_cmd ==
    /\ spc = "t_cmdrend"
    /\ IF ~sta.cmdrend
       THEN /\ spc' = "loop"
            /\ UNCHANGED <<sta, swrites, sret, sd_cmd>>
       ELSE IF index_checked(SdWait)
       THEN /\ spc' = "check_index"
            /\ UNCHANGED <<sta, swrites, sret, sd_cmd>>
       ELSE /\ sta' = icr_write(sta, cmdrend_clear(SdWait))
            /\ sd_cmd' = ResetCmd
            /\ swrites' = Append(Append(swrites, <<"icr", cmdrend_clear(SdWait)>>),
                                 <<"cmd", ResetCmd>>)
            /\ SdReturn(RetCode("NONE"))
    /\ UNCHANGED <<sd_arg, respcmd, resp1, cpsm, ticks, timeout, scall>>
    /\ UNCHANGED <<validVars, dmaVars>>

\* if self.registers.sta.read().cmdrend() { .. }
SdTestCmdrend ==
    /\ spc = "t_cmdrend"
    /\ IF ~sta.cmdrend
       THEN /\ spc' = "loop"
            /\ UNCHANGED <<sta, swrites, sret>>
       ELSE IF index_checked(SdWait)
       THEN /\ spc' = "check_index"
            /\ UNCHANGED <<sta, swrites, sret>>
       ELSE /\ sta' = icr_write(sta, cmdrend_clear(SdWait))
            /\ swrites' = Append(swrites, <<"icr", cmdrend_clear(SdWait)>>)
            /\ SdReturn(RetCode("NONE"))
    /\ UNCHANGED <<sd_arg, sd_cmd, respcmd, resp1, cpsm, ticks, timeout, scall>>
    /\ UNCHANGED <<validVars, dmaVars>>

\* if !self.correct_resp_command_number(cmd_index) { return CMD_CRC_FAIL }
\* self.clear_all_static_status_flags()
SdCheckIndex ==
    /\ spc = "check_index"
    /\ IF ~correct_resp_command_number(respcmd, cmd_index(scall.op))
       THEN /\ SdReturn(wait_error(SdWait, "CMD_CRC_FAIL"))
            /\ UNCHANGED <<sta, swrites>>
       ELSE /\ sta' = icr_write(sta, "static")
            /\ swrites' = Append(swrites, <<"icr", "static">>)
            /\ spc' = "read_resp"
            /\ sret' = sret
    /\ UNCHANGED <<sd_arg, sd_cmd, respcmd, resp1, cpsm, ticks, timeout, scall>>
    /\ UNCHANGED <<validVars, dmaVars>>

\* let response = self.registers.resp1.read().cardstatus1(); and its decoding
SdReadResp ==
    /\ spc = "read_resp"
    /\ IF SdWait = "get_response1"
       THEN SdReturn(RetCode(check_ocr_error_bits(resp1)))
       ELSE SdReturn(response6_decode(resp1))
    /\ UNCHANGED <<sta, sd_arg, sd_cmd, respcmd, resp1, cpsm, ticks, timeout,
                   scall, swrites>>
    /\ UNCHANGED <<validVars, dmaVars>>

\* the caller takes the returned value; the next call starts a new log
SdReturned ==
    /\ spc = "returned"
    /\ spc' = "idle"
    /\ scall' = NoCall
    /\ sret' = NoRet
    /\ swrites' = <<>>
    /\ timeout' = <<0, 0>>
    /\ UNCHANGED <<sta, sd_arg, sd_cmd, respcmd, resp1, cpsm, ticks>>
    /\ UNCHANGED <<validVars, dmaVars>>

(***************************************************************************)
(* The environment of the waits. The tick counter only increases; a wait   *)
(* compares it with its deadline alone, so the model lets it reach the     *)
(* last tick before the deadline, or the deadline.                         *)
(* The controller ends a started command once: command sent (no response   *)
(* expected), or command timeout, CRC failure, or a response with the      *)
(* index it echoes and its first word (the model lets the word vary for    *)
(* the operations whose wait reads it). Status flags stay set until        *)
(* cleared through the interrupt-clear register.                           *)
(***************************************************************************)
SdPolling ==
    spc \in {"loop", "t_cmdsent", "t_ctimeout", "t_ccrcfail", "t_cmdrend",
             "check_index", "read_resp"}

SdTick ==
    /\ SdPolling
    /\ \E t \in {usize_pred(timeout), timeout} :
        /\ usize_lt(ticks, t)
        /\ usize_lt(t, timeout) \/ t = timeout
        /\ ticks' = t
    /\ UNCHANGED <<sta, sd_arg, sd_cmd, respcmd, resp1, cpsm, timeout, spc, scall,
                   sret, swrites>>
    /\ UNCHANGED <<validVars, dmaVars>>

\* the first words a card answers with
Resp1Set ==
    {<<0, 0>>, <<\h0200, \h0100>>, <<\h1234, 0>>, <<\h1234, \h4000>>,
     <<\h1234, \hC000>>, <<\h1234, \h2000>>, <<\hC000, 0>>, <<\h0008, 0>>}

\* an index no operation issues
OtherIndex == 63

\* the indices of the operations that end with get_response1 or get_response6
IndexCheckedCommands ==
    {cmd_index(o) : o \in {x \in SdOperations : index_checked(cmd_wait(x))}}

SdHwEnd(flag, rc, r) ==
    /\ spc # "returned"
    /\ cpsm = "busy"
    /\ cpsm' = "idle"
    /\ sta' = [sta EXCEPT ![flag] = TRUE]
    /\ respcmd' = rc
    /\ resp1' = r
    /\ UNCHANGED <<sd_arg, sd_cmd, ticks, timeout, spc, scall, sret, swrites>>
    /\ UNCHANGED <<validVars, dmaVars>>

SdHwCommandSent ==
    /\ sd_cmd.waitresp = "No"
    /\ SdHwEnd("cmdsent", respcmd, resp1)

SdHwCommandTimeout ==
    /\ sd_cmd.waitresp # "No"
    /\ SdHwEnd("ctimeout", respcmd, resp1)

SdHwCrcFail ==
    /\ sd_cmd.waitresp # "No"
    /\ SdHwEnd("ccrcfail", respcmd, resp1)

SdHwResponse ==
    /\ sd_cmd.waitresp # "No"
    /\ \E rc \in {sd_cmd.cmdindex, OtherIndex}, r \in Resp1Set :
          /\ sd_cmd.cmdindex \notin IndexCheckedCommands => r = <<0, 0>>
          /\ SdHwEnd("cmdrend", rc, r)

\* the steps of the one flow of control
SdStep ==
    \/ SdWriteArg
    \/ SdWriteCmd
    \/ SdWaitEntry
    \/ SdLoopTest
    \/ SdTestCmdsent
    \/ SdTestCtimeout
    \/ SdTestCcrcfail
    \/ SdTestCmdrend
    \/ SdCheckIndex
    \/ SdReadResp
    \/ SdReturned

SdNext ==
    \/ SdWriteArg
    \/ SdWriteCmd
    \/ SdWaitEntry
    \/ SdLoopTest
    \/ SdTestCmdsent
    \/ SdTestCtimeout
    \/ SdTestCcrcfail
    \/ SdTestCmdrend
    \/ SdCheckIndex
    \/ SdReadResp
    \/ SdReturned
    \/ SdTick
    \/ SdHwCommandSent
    \/ SdHwCommandTimeout
    \/ SdHwCrcFail
    \/ SdHwResponse

\* as SdIdle, at one of the ticks at which calls start
SdInit ==
    /\ ValidIdle
    /\ DmaIdle
    /\ sta = NoFlags
    /\ sd_arg = <<0, 0>>
    /\ sd_cmd = ResetCmd
    /\ respcmd = 0
    /\ resp1 = <<0, 0>>
    /\ cpsm = "idle"
    /\ ticks \in EntryTicks
    /\ timeout = <<0, 0>>
    /\ spc = "idle"
    /\ scall = NoCall
    /\ sret = NoRet
    /\ swrites = <<>>

SpecSd == SdInit /\ [][SdNext]_vars

\* the processor keeps running and the tick counter keeps increasing
SpecSdFair == SpecSd /\ WF_vars(SdStep) /\ WF_vars(SdTick)

(***************************************************************************)
(* The SD claims speak of the wait the called operation ends with, of the  *)
(* code it returns, and of the steps of the flow of control (the steps     *)
(* that move spc; the controller and the clock do not).                    *)
(***************************************************************************)
ResponseWaits ==
    {"get_response1", "get_response2", "get_response3", "get_response6",
     "get_response7"}

SdInWait(ws) == scall # NoCall /\ cmd_wait(scall.op) \in ws

SdReturnedFrom(ws) == spc = "returned" /\ SdInWait(ws)

\* the code a returned value carries; get_response6 wraps it in Err
SdCodeOf(v) ==
    CASE v.tag = "Code" -> v.code
      [] v.tag = "Err" -> v.error
      [] OTHER -> "NoCode"

SdProgramStep == spc' # spc

(***************************************************************************)
(* C12. In each of the five response waits, while the deadline has not     *)
(* passed, the flags are tested in the order command-timeout, CRC-failure, *)
(* response-end: a set command-timeout gives the command-response-timeout  *)
(* code whatever the other two flags are; CRC-failure is looked at only    *)
(* with command-timeout found clear and then decides whatever response-end *)
(* is; response-end is looked at only with both found clear.               *)
(***************************************************************************)
C12_TestOrder ==
    (SdInWait(ResponseWaits) /\ SdProgramStep) =>
        /\ (spc = "loop" /\ usize_lt(ticks, timeout)) => spc' = "t_ctimeout"
        /\ (spc = "t_ctimeout" /\ sta.ctimeout) =>
              /\ spc' = "returned"
              /\ SdCodeOf(sret') = "CMD_RSP_TIMEOUT"
        /\ (spc = "t_ctimeout" /\ ~sta.ctimeout) => spc' = "t_ccrcfail"
        /\ (spc = "t_ccrcfail" /\ sta.ccrcfail) =>
              /\ spc' = "returned"
              /\ SdCodeOf(sret') =
                    IF cmd_wait(scall.op) \in {"get_response3", "get_response7"}
                    THEN "NONE" ELSE "CMD_CRC_FAIL"
        /\ (spc = "t_ccrcfail" /\ ~sta.ccrcfail) => spc' = "t_cmdrend"
        /\ spc' = "t_cmdrend" => (spc = "t_ccrcfail" /\ ~sta.ccrcfail)
        /\ spc' = "check_index" => (spc = "t_cmdrend" /\ sta.cmdrend)
        /\ (spc = "t_cmdrend" /\ ~sta.cmdrend) => spc' = "loop"

C12_FlagPriority == [][C12_TestOrder]_vars

\* a wait returned the command-response-timeout code with the CRC-failure and
\* the response-end flag both left set
C12_Witness ==
    /\ SdReturnedFrom(ResponseWaits)
    /\ SdCodeOf(sret) = "CMD_RSP_TIMEOUT"
    /\ sta.ccrcfail
    /\ sta.cmdrend

(***************************************************************************)
(* C13. In the index-checked waits (R1 after CMD7 and CMD55, R6 after      *)
(* CMD3), once response-end is found set with command-timeout and          *)
(* CRC-failure found clear, an echoed index that differs from the issued   *)
(* one gives the command-CRC-failure code: never success, never a decoded  *)
(* card status or relative address. The response is decoded only after a   *)
(* matching echo.                                                          *)
(***************************************************************************)
C13_IssuedIndex ==
    CASE scall.op = "cmd_send_relative_addr" -> 3
      [] scall.op = "cmd_select_deselect_card" -> 7
      [] scall.op = "cmd_app_cmd" -> 55

C13_IndexStep ==
    (SdInWait({"get_response1", "get_response6"}) /\ SdProgramStep) =>
        /\ (spc = "check_index" /\ respcmd # C13_IssuedIndex) =>
              /\ spc' = "returned"
              /\ sret'.tag # "Ok"
              /\ SdCodeOf(sret') = "CMD_CRC_FAIL"
        /\ spc' = "read_resp" =>
              (spc = "check_index" /\ respcmd = C13_IssuedIndex)
        /\ (spc' = "returned"
              /\ SdCodeOf(sret') \notin {"TIMEOUT", "CMD_RSP_TIMEOUT",
                                         "CMD_CRC_FAIL"})
              => spc = "read_resp"

C13_IndexMismatchIsCrcFailure == [][C13_IndexStep]_vars

\* CMD3 answered with another command's index: Err(CMD_CRC_FAIL), although the
\* response word carries a relative address and no error bit
C13_Witness ==
    /\ SdReturnedFrom({"get_response6"})
    /\ sret = RetErr("CMD_CRC_FAIL")
    /\ respcmd = OtherIndex
    /\ resp1 = <<\h1234, 0>>
    /\ ~sta.ccrcfail
    /\ ~sta.ctimeout

(***************************************************************************)
(* C14 (as stated; the code contradicts it). A response wait that returns  *)
(* the command-CRC-failure code has cleared the flag that caused the       *)
(* return: the CRC-failure flag when that flag was set, the response-end   *)
(* flag when the echoed index mismatched (the wait then made no write      *)
(* before it returned, or would have cleared it).                          *)
(***************************************************************************)
C14_CausedByMismatch ==
    \A i \in 1..Len(swrites) : swrites[i][1] # "icr"

C14_CrcFailureClearsItsFlag ==
    (SdReturnedFrom(ResponseWaits) /\ SdCodeOf(sret) = "CMD_CRC_FAIL") =>
        IF C14_CausedByMismatch THEN ~sta.cmdrend ELSE ~sta.ccrcfail

(***************************************************************************)
(* C15. In the R3 wait (ACMD41) a set CRC-failure flag is success, never   *)
(* an error: the wait returns the success code when it finds the           *)
(* CRC-failure flag or the response-end flag set, and it never returns the *)
(* command-CRC-failure code.                                               *)
(***************************************************************************)
C15_Codes ==
    SdReturnedFrom({"get_response3"}) =>
        /\ sret.tag = "Code"
        /\ sret.code \in {"NONE", "CMD_RSP_TIMEOUT", "TIMEOUT"}

C15_Step ==
    (SdInWait({"get_response3"}) /\ SdProgramStep) =>
        /\ ((spc = "t_ccrcfail" /\ sta.ccrcfail)
               \/ (spc = "t_cmdrend" /\ sta.cmdrend)) =>
              /\ spc' = "returned"
              /\ sret' = RetCode("NONE")
        /\ (spc' = "returned" /\ SdCodeOf(sret') = "NONE") =>
              ((spc = "t_ccrcfail" /\ sta.ccrcfail)
                 \/ (spc = "t_cmdrend" /\ sta.cmdrend))

C15_R3CrcFailureIsSuccess == [](C15_Codes) /\ [][C15_Step]_vars

\* ACMD41 returned success and no response arrived for it: the controller
\* ended the command without one (the response register still echoes
\* another index)
C15_Witness ==
    /\ SdReturnedFrom({"get_response3"})
    /\ sret = RetCode("NONE")
    /\ cpsm = "idle"
    /\ respcmd # 41
    /\ sta = NoFlags

(***************************************************************************)
(* C16. In the R7 wait (CMD8) a set command-timeout flag gives the         *)
(* command-response-timeout code, a set CRC-failure flag and a set         *)
(* response-end flag both give success, and the echoed command index is    *)
(* never checked.                                                          *)
(***************************************************************************)
C16_Codes ==
    SdReturnedFrom({"get_response7"}) =>
        /\ scall.op = "cmd_send_if_cond"
        /\ sret.tag = "Code"
        /\ sret.code \in {"NONE", "CMD_RSP_TIMEOUT", "TIMEOUT"}

C16_Step ==
    (SdInWait({"get_response7"}) /\ SdProgramStep) =>
        /\ (spc = "t_ctimeout" /\ sta.ctimeout) =>
              (spc' = "returned" /\ sret' = RetCode("CMD_RSP_TIMEOUT"))
        /\ (spc = "t_ccrcfail" /\ sta.ccrcfail) =>
              (spc' = "returned" /\ sret' = RetCode("NONE"))
        /\ (spc = "t_cmdrend" /\ sta.cmdrend) =>
              (spc' = "returned" /\ sret' = RetCode("NONE"))
        /\ spc' \notin {"check_index", "read_resp"}

C16_R7Outcomes == [](C16_Codes) /\ [][C16_Step]_vars

\* CMD8 returned success on a response that echoes another index
C16_Witness ==
    /\ SdReturnedFrom({"get_response7"})
    /\ sret = RetCode("NONE")
    /\ respcmd = OtherIndex
    /\ cpsm = "idle"
    /\ swrites[Len(swrites)] = <<"icr", "cmdrendc">>

(***************************************************************************)
(* C17. In the R6 wait (CMD3), after a response with a matching echoed     *)
(* index, three bits of the response's status part (its lower half) are    *)
(* checked and no other: illegal-command (bit 14), CRC-failed (bit 15),    *)
(* general-unknown-error (bit 13), each giving its error code (in this     *)
(* order when several are set); with none of them set the result is Ok     *)
(* with the upper 16 bits of the response as relative address.             *)
(***************************************************************************)
C17_Bit(half, n) == (half \div Shl1(n)) % 2 = 1

C17_Expected(r) ==
    IF C17_Bit(r[2], 14) THEN RetErr("ILLEGAL_CMD")
    ELSE IF C17_Bit(r[2], 15) THEN RetErr("COM_CRC_FAILED")
    ELSE IF C17_Bit(r[2], 13) THEN RetErr("GENERAL_UNKNOWN_ERR")
    ELSE [tag |-> "Ok", value |-> r[1]]

C17_Decoded ==
    /\ SdReturnedFrom({"get_response6"})
    /\ swrites[Len(swrites)][1] = "icr"
    /\ swrites[Len(swrites)][2] = "static"

BitWord(n) == IF n >= 16 THEN <<Shl1(n - 16), 0>> ELSE <<0, Shl1(n)>>

OcrWords ==
    {<<0, 0>>} \cup {WordOr(BitWord(a), BitWord(b)) : a \in 0..31, b \in 0..31}

OcrInit ==
    /\ ValidIdle
    /\ DmaIdle
    /\ sta = NoFlags
    /\ sd_arg = <<0, 0>>
    /\ sd_cmd = ResetCmd
    /\ respcmd = 0
    /\ resp1 \in OcrWords
    /\ cpsm = "idle"
    /\ ticks = <<0, 0>>
    /\ timeout = <<0, 0>>
    /\ spc = "read_resp"
    /\ scall = [op |-> "check_ocr_error_bits"]
    /\ sret = NoRet
    /\ swrites = <<>>

\* return check_ocr_error_bits(response)
OcrDecode ==
    /\ spc = "read_resp"
    /\ SdReturn(RetCode(check_ocr_error_bits(resp1)))
    /\ UNCHANGED <<sta, sd_arg, sd_cmd, respcmd, resp1, cpsm, ticks, timeout,
                   scall, swrites>>
    /\ UNCHANGED <<validVars, dmaVars>>

SpecOcr == OcrInit /\ [][OcrDecode]_vars

(***************************************************************************)
(* C18. The R1 card status decoding depends on the status word alone and   *)
(* has a fixed priority from bit 31 downwards: the word 0 gives success;   *)
(* a word with bit 31 set gives address-out-of-range, also with bit 30     *)
(* set; otherwise the code of the highest set error bit; and               *)
(* general-unknown-error only when an error is indicated (a bit of the     *)
(* error mask is set) and no specific error bit is set.                    *)
(***************************************************************************)
C18_BitsOf(w) ==
    {n \in 0..31 : IF n >= 16 THEN (w[1] \div Shl1(n - 16)) % 2 = 1
                              ELSE (w[2] \div Shl1(n)) % 2 = 1}

\* the specific error bits and their codes
C18_Code(n) ==
    CASE n = 31 -> "ADDR_OUT_OF_RANGE"    [] n = 30 -> "ADDR_MISALIGNED"
      [] n = 29 -> "BLOCK_LEN_ERR"        [] n = 28 -> "ERASE_SEQ_ERR"
      [] n = 27 -> "BAD_ERASE_PARAM"      [] n = 26 -> "WRITE_PROT_VIOLATION"
      [] n = 24 -> "LOCK_UNLOCK_FAILED"   [] n = 23 -> "COM_CRC_FAILED"
      [] n = 22 -> "ILLEGAL_CMD"          [] n = 21 -> "CARD_ECC_FAILED"
      [] n = 20 -> "CC_ERR"               [] n = 18 -> "STREAM_READ_UNDERRUN"
      [] n = 17 -> "STREAM_WRITE_OVERRUN" [] n = 16 -> "CID_CSD_OVERWRITE"
      [] n = 15 -> "WP_ERASE_SKIP"        [] n = 14 -> "CARD_ECC_DISABLED"
      [] n = 13 -> "ERASE_RESET"          [] n = 3 -> "AKE_SEQ_ERR"

C18_SpecificBits == (26..31) \cup (20..24) \cup (13..18) \cup {3}

\* the bits that indicate an error: the specific ones and bit 19
C18_ErrorBits == C18_SpecificBits \cup {19}

C18_Expected(w) ==
    LET set == C18_BitsOf(w)
        specific == set \cap C18_SpecificBits
    IN  IF set \cap C18_ErrorBits = {} THEN "NONE"
        ELSE IF specific = {} THEN "GENERAL_UNKNOWN_ERR"
        ELSE C18_Code(CHOOSE n \in specific : \A m \in specific : m <= n)

C18_StatusDecoding ==
    (spc = "returned" /\ scall.op = "check_ocr_error_bits") =>
        /\ sret = RetCode(C18_Expected(resp1))
        /\ resp1 = <<0, 0>> => sret.code = "NONE"
        /\ 31 \in C18_BitsOf(resp1) => sret.code = "ADDR_OUT_OF_RANGE"

\* bits 31 and 30 both set: address-out-of-range
C18_Witness ==
    /\ spc = "returned"
    /\ scall.op = "check_ocr_error_bits"
    /\ C18_BitsOf(resp1) = {30, 31}
    /\ sret = RetCode("ADDR_OUT_OF_RANGE")

(***************************************************************************)
(* C19. No response wait (get_cmd_error, R1, R2, R3, R6, R7) writes the    *)
(* argument register or the command register: when the wait returns, both  *)
(* hold the values written by the dispatch that preceded it, and the waits *)
(* write only the interrupt-clear register.                                *)
(***************************************************************************)
C19_InWait == SdPolling \/ spc = "wait_entry"

\* the register writes of a call: the dispatch's two, then only icr writes
C19_Writes ==
    (C19_InWait \/ spc = "returned") =>
        /\ Len(swrites) >= 2
        /\ swrites[1][1] = "arg"
        /\ swrites[2][1] = "cmd"
        /\ \A i \in 3..Len(swrites) : swrites[i][1] = "icr"
        /\ sd_arg = swrites[1][2]
        /\ sd_cmd = swrites[2][2]
        /\ sd_arg = cmd_argument(scall)
        /\ sd_cmd.cmdindex = cmd_index(scall.op)
        /\ sd_cmd.cpsmen

\* a step of a wait leaves both registers alone
C19_WaitStep ==
    (C19_InWait /\ SdProgramStep) =>
        /\ sd_arg' = sd_arg
        /\ sd_cmd' = sd_cmd
        /\ \/ swrites' = swrites
           \/ \E what \in {"static", "ctimeoutc", "ccrcfailc", "cmdrendc"} :
                 swrites' = Append(swrites, <<"icr", what>>)

C19_WaitsWriteOnlyIcr == [](C19_Writes) /\ [][C19_WaitStep]_vars

\* a wait that returned after writing the interrupt-clear register
C19_Witness ==
    /\ SdReturnedFrom(ResponseWaits)
    /\ Len(swrites) = 3
    /\ swrites[3][1] = "icr"
    /\ sd_cmd = swrites[2][2]
    /\ sd_arg = swrites[1][2]

\* get_cmd_error returned: it wrote no register at all
C19_WitnessCmdError ==
    /\ SdReturnedFrom({"get_cmd_error"})
    /\ Len(swrites) = 2
    /\ sd_cmd = swrites[2][2]

(***************************************************************************)
(* C20. Every SD response wait terminates, provided the tick counter keeps *)
(* increasing: its deadline is the tick at entry plus 5000; if none of the *)
(* flags it tests is set, it returns the software-timeout code once the    *)
(* tick counter has reached the deadline, and not before; and after a      *)
(* timeout it neither re-issues the command nor restarts its polling loop. *)
(***************************************************************************)
\* b is a + n, as numbers (n below 65536)
C20_IsSum(b, a, n) ==
    /\ b[1] - a[1] \in {0, 1}
    /\ (b[1] - a[1]) * U16 + (b[2] - a[2]) = n

C20_TimedOut(v) == v # NoRet /\ SdCodeOf(v) = "TIMEOUT"

\* the tick is more than 5000 ticks before the end of the counter's range
C20_FarFromEnd == ~usize_add_overflows(ticks, 5000)

C20_Step(anywhere) ==
    /\ (spc = "wait_entry" /\ SdProgramStep /\ (anywhere \/ C20_FarFromEnd)) =>
          /\ spc' = "loop"
          /\ C20_IsSum(timeout', ticks, 5000)
    /\ (spc = "loop" /\ SdProgramStep) =>
          IF usize_lt(ticks, timeout)
          THEN spc' # "returned"
          ELSE /\ spc' = "returned"
               /\ C20_TimedOut(sret')
               /\ sd_cmd' = sd_cmd
               /\ swrites' = swrites
    /\ SdPolling => timeout' = timeout
    /\ (spc = "returned" /\ SdProgramStep) => spc' = "idle"

\* a wait that timed out wrote no register: the command was written once
C20_NoReissue ==
    (spc = "returned" /\ C20_TimedOut(sret)) =>
        /\ ~usize_lt(ticks, timeout)
        /\ Len(swrites) = 2
        /\ swrites[2][1] = "cmd"

C20_WaitsTerminateAtDeadline ==
    /\ [](C20_NoReissue)
    /\ [][C20_Step(TRUE)]_vars
    /\ (spc = "wait_entry") ~> (spc = "returned")

\* the same for the waits entered more than 5000 ticks before the end of the
\* range of the tick counter
C20_WaitsTerminateFarFromEnd ==
    /\ [](C20_NoReissue)
    /\ [][C20_Step(FALSE)]_vars
    /\ (spc = "wait_entry" /\ C20_FarFromEnd) ~> (spc = "returned")

\* a wait entered at tick 0 has timed out at tick 5000 with no flag set
C20_Witness ==
    /\ spc = "returned"
    /\ C20_TimedOut(sret)
    /\ sta = NoFlags
    /\ timeout = <<0, 5000>>
    /\ ticks = timeout

(***************************************************************************)
(* C21. Each of the eight dispatch operations writes the argument register *)
(* first and the command register second, and starts the matching response *)
(* wait only after both writes. The argument is 0 for CMD0/CMD2/CMD3,       *)
(* 0x1AA for CMD8, the RCA shifted left by 16 for CMD7/CMD9/CMD55 and       *)
(* 0x80100000 or-ed with the capacity flag for ACMD41; the wait is          *)
(* command-sent for CMD0, R2 for CMD2/CMD9, R6 for CMD3, R1 for CMD7/CMD55, *)
(* R7 for CMD8 and R3 for ACMD41.                                           *)
(***************************************************************************)
\* the command number of an operation
C21_Number(o) ==
    CASE o = "cmd_go_idle_state" -> 0
      [] o = "cmd_all_send_cid" -> 2
      [] o = "cmd_send_relative_addr" -> 3
      [] o = "cmd_select_deselect_card" -> 7
      [] o = "cmd_send_if_cond" -> 8
      [] o = "cmd_send_csd" -> 9
      [] o = "cmd_sd_send_op_cond" -> 41
      [] o = "cmd_app_cmd" -> 55

C21_Argument(c) ==
    LET n == C21_Number(c.op)
    IN  CASE n \in {0, 2, 3} -> <<0, 0>>
          [] n = 8 -> <<0, 256 + 170>>
          [] n \in {7, 9, 55} -> <<c.rca[2], 0>>
          [] n = 41 -> IF c.capacity = "High" THEN <<\hC010, 0>>
                                              ELSE <<\h8010, 0>>

C21_Wait(n) ==
    CASE n = 0 -> "get_cmd_error"
      [] n \in {2, 9} -> "get_response2"
      [] n = 3 -> "get_response6"
      [] n \in {7, 55} -> "get_response1"
      [] n = 8 -> "get_response7"
      [] n = 41 -> "get_response3"

C21_Dispatched ==
    /\ spc = "arg_written" =>
          /\ Len(swrites) = 1
          /\ swrites[1] = <<"arg", C21_Argument(scall)>>
    /\ (SdPolling \/ spc \in {"wait_entry", "returned", "panicked"}) =>
          /\ Len(swrites) >= 2
          /\ swrites[1] = <<"arg", C21_Argument(scall)>>
          /\ swrites[2][1] = "cmd"
          /\ swrites[2][2].cmdindex = C21_Number(scall.op)
          /\ swrites[2][2].cpsmen
          /\ SdWait = C21_Wait(C21_Number(scall.op))

\* the wait of an operation begins with the first test of its kind of wait,
\* and only the waits of CMD3, CMD7 and CMD55 check the echoed index
C21_WaitStep ==
    /\ (spc = "loop" /\ SdProgramStep /\ spc' # "returned") =>
          spc' = IF C21_Number(scall.op) = 0 THEN "t_cmdsent" ELSE "t_ctimeout"
    /\ spc' = "check_index" => C21_Number(scall.op) \in {3, 7, 55}
    /\ (spc = "idle" /\ SdProgramStep) => spc' = "arg_written"
    /\ (spc = "arg_written" /\ SdProgramStep) => spc' = "wait_entry"

C21_DispatchSequence == [](C21_Dispatched) /\ [][C21_WaitStep]_vars

\* CMD7 with RCA 0x00011234: the argument is 0x12340000
C21_Witness ==
    /\ spc = "returned"
    /\ scall.op = "cmd_select_deselect_card"
    /\ scall.rca = <<1, \h1234>>
    /\ swrites[1] = <<"arg", <<\h1234, 0>>>>
    /\ swrites[2][1] = "cmd"

(***************************************************************************)
(* C22 (as stated; the code contradicts it). For every descriptor, from    *)
(* construction through any caller mutation of its public fields up to     *)
(* start(), direct mode is Enable exactly when transaction_count times the  *)
(* peripheral width is below 16; and a descriptor with direct mode Enable   *)
(* and direction MemoryToMemory is rejected by the validation start() runs. *)
(***************************************************************************)
C22_BelowFifoSize(d) ==
    d.transaction_count
        * (CASE d.peripheral.transaction_width = "Byte" -> 1
             [] d.peripheral.transaction_width = "HalfWord" -> 2
             [] d.peripheral.transaction_width = "Word" -> 4) < 16

C22_Derived(d) == d.direct_mode = "Enable" <=> C22_BelowFifoSize(d)

C22_RejectedWithM2M ==
    (Validated /\ vmoved[1] = "none" /\ dv.direct_mode = "Enable"
        /\ dv.direction = "MemoryToMemory") => vresult # NoError

C22_DirectModeAlwaysDerived == C22_Derived(dv) /\ C22_RejectedWithM2M

(***************************************************************************)
(* C22 (amended). new() derives direct mode: Enable exactly when            *)
(* transaction_count times the peripheral width is below 16. direct_mode   *)
(* is a public field as the others: a store to another field leaves it as  *)
(* it is (it is not derived again), and the caller can store either value   *)
(* to it. A descriptor with direct mode Enable and direction                *)
(* MemoryToMemory is rejected by the validation start() runs.               *)
(***************************************************************************)
C22_StoreStep ==
    (dv' # dv /\ nmut' = nmut + 1) =>
        \/ dv'.direct_mode = dv.direct_mode
        \/ dv' = [dv EXCEPT !.direct_mode = dv'.direct_mode]

C22_DirectModeDerivedByNew ==
    /\ [](nmut = 0 => C22_Derived(dv))
    /\ [](C22_RejectedWithM2M)
    /\ [][C22_StoreStep]_vars

\* a descriptor whose direct mode is Enable although its transfer is not
\* below the FIFO size passes the validation
C22_Witness ==
    /\ Validated
    /\ vresult = NoError
    /\ dv.direct_mode = "Enable"
    /\ ~C22_BelowFifoSize(dv)

\* direct mode Enable with MemoryToMemory was rejected for that reason
C22_WitnessM2M ==
    /\ Validated
    /\ dv.direct_mode = "Enable"
    /\ dv.direction = "MemoryToMemory"
    /\ vresult = Err("CannotUseMemoryToMemoryTransferWithDirectMode")

(***************************************************************************)
(* C23. FIFO threshold compatibility: with all earlier checks passing,     *)
(* is_valid() returns InvalidFifoThresholdMemoryBurstCombination exactly   *)
(* when threshold numerator times 16 is not evenly divisible by 4 times    *)
(* the memory burst bytes; the numerator is 1, 2, 3, 4 for Quarter, Half,  *)
(* ThreeQuarter, Full and the memory burst bytes are the memory burst      *)
(* beats times the memory width.                                           *)
(***************************************************************************)
C23_EarlierErrors ==
    C3_BeforeMemoryKb
      \cup {"MemoryAccessWouldCrossOneKilobyteBoundary",
            "PeripheralAccessWouldCrossOneKilobyteBoundary"}

C23_Numerator(t) ==
    CASE t = "Quarter" -> 1 [] t = "Half" -> 2
      [] t = "ThreeQuarter" -> 3 [] t = "Full" -> 4

C23_MemoryBurstBytes(d) ==
    (CASE d.memory.burst_mode = "SingleTransfer" -> 1
       [] d.memory.burst_mode = "Incremental4" -> 4
       [] d.memory.burst_mode = "Incremental8" -> 8
       [] d.memory.burst_mode = "Incremental16" -> 16)
      * (CASE d.memory.transaction_width = "Byte" -> 1
           [] d.memory.transaction_width = "HalfWord" -> 2
           [] d.memory.transaction_width = "Word" -> 4)

C23_Incompatible(d) ==
    \A k \in 0..64 :
        k * (4 * C23_MemoryBurstBytes(d)) # C23_Numerator(d.fifo_threshold) * 16

C23_FifoThresholdRule ==
    (Validated /\ vresult.tag \notin C23_EarlierErrors) =>
        /\ vresult.tag \in {"None", "InvalidFifoThresholdMemoryBurstCombination"}
        /\ vresult.tag = "InvalidFifoThresholdMemoryBurstCombination"
              <=> C23_Incompatible(dv)

\* threshold Half (32 bytes) against a memory burst of 16 bytes: rejected
C23_Witness ==
    /\ Validated
    /\ vresult = Err("InvalidFifoThresholdMemoryBurstCombination")
    /\ dv.fifo_threshold = "Half"
    /\ C23_MemoryBurstBytes(dv) = 16

\* threshold Full against a memory burst of 16 bytes: accepted
C23_WitnessAccepted ==
    /\ Validated
    /\ vresult = NoError
    /\ dv.fifo_threshold = "Full"
    /\ C23_MemoryBurstBytes(dv) = 16

(***************************************************************************)
(* C24. Two descriptors on the same stream of one manager: start() on the  *)
(* second returns StreamNotReady as long as the stream is enabled with no  *)
(* transfer-complete or error flag raised; is_ready() is true as soon as   *)
(* one of those flags is raised even though the enable bit is still set,   *)
(* and start() on the second descriptor then goes on and rewrites the      *)
(* stream's flags and configuration registers without any stop() having    *)
(* disabled the stream.                                                    *)
(***************************************************************************)
C24_Flagged(s) ==
    \E f \in {"tcif", "teif", "dmeif"} : regs[s][f] = "Raised"

C24_Busy(s) == regs[s].en = "Enable" /\ ~C24_Flagged(s)

C24_Step ==
    LET s == xfer[cur].stream
    IN  /\ (pc = "start_is_ready" /\ pc' # pc) =>
              IF C24_Busy(s)
              THEN /\ pc' = "returned"
                   /\ ret' = [tag |-> "Err", error |-> [tag |-> "StreamNotReady"]]
                   /\ regs' = regs
                   /\ writes' = writes
              ELSE /\ pc' = "configure_flags"
                   /\ regs' = regs
        /\ (pc = "configure_flags" /\ pc' # pc) =>
              /\ Len(writes') = Len(writes) + 5
              /\ regs'[s].en = regs[s].en
              /\ ~C24_Flagged(s)'
        /\ (pc = "configure_fields" /\ pc' # pc) =>
              /\ Len(writes') = Len(writes) + 23
              /\ regs'[s].en = regs[s].en
              /\ regs'[s].m0ar = xfer[cur].memory.address
              /\ regs'[s].ndtr = xfer[cur].transaction_count
        /\ (pc = "idle" /\ op' = "is_ready") =>
              ret' = [tag |-> "Bool", value |-> ~C24_Busy(xfer[cur'].stream)]

\* a start() that returned Ok wrote the enable bit once, last, as Enable
C24_NoStopInStart ==
    (pc = "returned" /\ op = "start" /\ ret = RetOk) =>
        /\ Len(writes) = 29
        /\ \A i \in 1..Len(writes) :
              /\ writes[i][1] = xfer[cur].stream
              /\ writes[i][2] = "en" => (i = 29 /\ writes[i][3] = "Enable")

C24_SecondStartOnFlaggedStream ==
    [](C24_NoStopInStart) /\ [][C24_Step]_vars

\* start() on the second descriptor has cleared the flags of the stream the
\* first descriptor configured and enabled; the stream is still enabled
C24_Witness ==
    /\ cur = 2
    /\ op = "start"
    /\ pc = "configure_fields"
    /\ Len(writes) = 5
    /\ regs["S0"].en = "Enable"
    /\ regs["S0"].m0ar = xfer[1].memory.address
    /\ regs["S0"].m0ar # xfer[2].memory.address

\* start() on the second descriptor was refused on the stream the first
\* descriptor enabled
C24_WitnessNotReady ==
    /\ cur = 2
    /\ op = "start"
    /\ pc = "returned"
    /\ ret = RetErr(StreamNotReady)
    /\ regs["S0"].en = "Enable"
    /\ regs["S0"].m0ar = xfer[1].memory.address
    /\ regs["S0"].m0ar # xfer[2].memory.address

(***************************************************************************)
(* C25. When the memory burst byte size is smaller than the effective      *)
(* peripheral width (the memory count factor rounds down to 0, e.g. memory *)
(* Byte/SingleTransfer against a 4 byte peripheral), is_valid() divides by *)
(* no zero and returns TransactionCountNotAMultipleOf(0) for every         *)
(* transaction count: such a descriptor is never accepted by the           *)
(* validation start() runs.                                                *)
(***************************************************************************)
C25_EffectivePeripheralWidth(d) ==
    IF d.peripheral_increment_offset_size = "Force32Bit" THEN 4
    ELSE CASE d.peripheral.transaction_width = "Byte" -> 1
           [] d.peripheral.transaction_width = "HalfWord" -> 2
           [] d.peripheral.transaction_width = "Word" -> 4

C25_FactorRoundsToZero(d) ==
    C23_MemoryBurstBytes(d) < C25_EffectivePeripheralWidth(d)

C25_ZeroCountFactor ==
    (Validated /\ C25_FactorRoundsToZero(dv)) =>
        vresult = [tag |-> "TransactionCountNotAMultipleOf", factor |-> 0]

\* memory Byte/SingleTransfer against a Word peripheral, transaction count 0
C25_Witness ==
    /\ Validated
    /\ dv.memory.transaction_width = "Byte"
    /\ dv.memory.burst_mode = "SingleTransfer"
    /\ dv.peripheral.transaction_width = "Word"
    /\ dv.transaction_count = 0
    /\ vresult = TransactionCountNotAMultipleOf(0)

\* the same with transaction count 64 and the peripheral forced to 32 bit
C25_WitnessForced ==
    /\ Validated
    /\ dv.memory.transaction_width = "HalfWord"
    /\ dv.peripheral_increment_offset_size = "Force32Bit"
    /\ dv.peripheral.transaction_width # "Word"
    /\ dv.transaction_count = 64
    /\ vresult = TransactionCountNotAMultipleOf(0)

(***************************************************************************)
(* C26. No descriptor operation holds a borrow of the shared DmaManager    *)
(* while acquiring another: every shared or mutable borrow is released     *)
(* before the next one is taken, so for any sequence of is_ready,          *)
(* is_active, start, wait, stop and execute calls made by the descriptors  *)
(* sharing one manager in a single flow of control, the run-time           *)
(* exclusive-access check never fails.                                     *)
(***************************************************************************)
\* the state of the RefCell after the accesses of every step: a borrow that
\* overlapped another would have panicked or be counted in the flag
C26_BorrowsNeverOverlap == dmaBorrow.flag = 0 /\ ~dmaBorrow.panicked

\* execute() on the second descriptor of the stream has run through its
\* reads and its 30 writes
C26_Witness ==
    /\ pc = "returned"
    /\ op = "execute"
    /\ cur = 2
    /\ Len(writes) = 30
    /\ dmaBorrow = NoBorrow

(***************************************************************************)
(* C27. CMD0 (cmd_go_idle_state) reports success exactly when the          *)
(* command-sent flag is observed set before the deadline of its wait and   *)
(* software timeout otherwise, whatever the command-timeout and            *)
(* CRC-failure flags are; its wait writes nothing to the interrupt-clear   *)
(* register, so the command-sent flag is still set when it returns, and a  *)
(* following CMD0 issued without a flag clear in between succeeds on the   *)
(* stale flag.                                                             *)
(***************************************************************************)
C27_InCmd0 == scall.op = "cmd_go_idle_state"

C27_Step ==
    (C27_InCmd0 /\ SdProgramStep) =>
        /\ spc = "loop" =>
              IF usize_lt(ticks, timeout)
              THEN spc' = "t_cmdsent"
              ELSE spc' = "returned" /\ sret' = [tag |-> "Code", code |-> "TIMEOUT"]
        /\ spc = "t_cmdsent" =>
              IF sta.cmdsent
              THEN spc' = "returned" /\ sret' = [tag |-> "Code", code |-> "NONE"]
              ELSE spc' = "loop"
        /\ spc \in {"wait_entry", "loop", "t_cmdsent"} =>
              /\ sta' = sta
              /\ swrites' = swrites

C27_Returned ==
    /\ C27_InCmd0 => spc \in {"arg_written", "wait_entry", "loop", "t_cmdsent",
                              "returned", "panicked"}
    /\ (C27_InCmd0 /\ spc = "returned") =>
          /\ sret.tag = "Code"
          /\ sret.code \in {"NONE", "TIMEOUT"}
          /\ sret.code = "NONE" => sta.cmdsent
          /\ Len(swrites) = 2

C27_Cmd0OnlyCommandSent == [](C27_Returned) /\ [][C27_Step]_vars

\* CMD0 has returned success while the controller is still busy with it:
\* the flag it found set is the one an earlier command left
C27_Witness ==
    /\ C27_InCmd0
    /\ spc = "returned"
    /\ sret = RetCode("NONE")
    /\ cpsm = "busy"
    /\ sta.cmdsent

=============================================================================
